---- MODULE Spec2Model ----
(***************************************************************************)
(* InterviewIQ: the session store (backend/shared/dynamo_service.py) and   *)
(* the stage handlers (backend/functions/*/handler.py) that read and merge *)
(* into one session record.  Handlers run as independent invocations; the  *)
(* store, the blob bucket and the wall clock are the only shared state.    *)
(***************************************************************************)
EXTENDS Integers, Sequences, FiniteSets, TLC

(* ------------------------------ bounds -------------------------------- *)
NumProcs == 2          \* concurrent handler / store-call invocations
MaxInvocations == 3    \* invocations (handlers, direct store calls) in one behaviour
MaxSessions == 1       \* sessions created in one behaviour
MaxClock == 1          \* wall-clock readings 0..MaxClock
MaxTextLen == 5        \* tokens in a text given to _parse_json_response
MaxReplyLen == 3       \* tokens in a reply given to a generate_* operation
MaxChars == 5          \* characters in a text given to the Comprehend service
MaxBytes == 3          \* max_bytes of _chunk_text in the model (MAX_BYTES in the source)
MaxScore == 3          \* confidence scores 0..MaxScore, in thirds of 0.0001
MaxFound == 2          \* entities / key phrases in one Comprehend response
MaxNameLen == 3        \* characters in a company name given to scrape_company

Procs == 1..NumProcs
SessionIds == 1..MaxSessions   \* the identifiers uuid4 hands out, in order
NoId == 0                      \* a request without sessionId
Times == 0..MaxClock

(* ------------------------------ values -------------------------------- *)
EmptyDict == "{}"                      \* the Python value {}
NoSession == [sessionId |-> NoId]      \* get_session's None
NoUpdates == <<>>                      \* the Python dict {} used as a map

StatusOrder == <<"CREATED", "SCRAPING_COMPLETE", "ANALYSIS_COMPLETE", "READY", "FEEDBACK_RECEIVED">>
Rank(s) == CHOOSE i \in 1..Len(StatusOrder) : StatusOrder[i] = s

KeyFields == {"sessionId", "createdAt"}
ItemFields == {"sessionId", "createdAt", "updatedAt", "status", "companyName",
               "companyUrl", "scrapedData", "parsedDocuments", "analysisResults",
               "interviewerBrief", "intervieweePacket", "feedback", "metadata"}

VARIABLES table,        \* DynamoDB table: composite key <<sessionId, createdAt>> -> item
          blobs,        \* S3 bucket: key <<prefix, sessionId, filename>> -> content
          clock,        \* datetime.now(timezone.utc)
          pc,           \* position of each invocation
          req,          \* request of each invocation
          loc,          \* locals of each invocation: session read, updates map
          resp,         \* status code returned by the last invocation (0: none yet)
          ret,          \* value returned by the last direct store call
          calls,        \* external calls made by the current invocation
          wrote,        \* the current invocation has mutated the table
          invocations,  \* invocations started
          gen           \* the call of a shared service in progress: inputs, locals, outcome

vars == <<table, blobs, clock, pc, req, loc, resp, ret, calls, wrote, invocations, gen>>

(* --------------------------- DynamoDB table --------------------------- *)
Key(sid, createdAt) == <<sid, createdAt>>

\* Maps g overriding f (SET of every key of g).
Merge(f, g) == [k \in (DOMAIN f) \cup (DOMAIN g) |-> IF k \in DOMAIN g THEN g[k] ELSE f[k]]

\* Mutant of update_item: the item is replaced by the key and the SET values.
update_item_Put(tbl, key, updates) ==
    LET new == Merge([sessionId |-> key[1], createdAt |-> key[2]], updates)
    IN  [k \in (DOMAIN tbl) \cup {key} |-> IF k = key THEN new ELSE tbl[k]]

\* Table.update_item(Key, UpdateExpression="SET ...", ReturnValues="ALL_NEW"):
\* no ConditionExpression, so a missing key is created from key + SET values.
update_item(tbl, key, updates) ==
    LET old == IF key \in DOMAIN tbl THEN tbl[key]
               ELSE [sessionId |-> key[1], createdAt |-> key[2]]
        new == Merge(old, updates)
    IN  [k \in (DOMAIN tbl) \cup {key} |-> IF k = key THEN new ELSE tbl[k]]

\* Table.put_item(Item=item)
put_item(tbl, item) ==
    LET key == Key(item.sessionId, item.createdAt)
    IN  [k \in (DOMAIN tbl) \cup {key} |-> IF k = key THEN item ELSE tbl[k]]

\* Mutant of create_session: the record starts out READY.
create_session_Ready(sid, now, company_name, company_url, metadata) ==
    [sessionId |-> sid, createdAt |-> now, updatedAt |-> now, status |-> "READY",
     companyName |-> company_name, companyUrl |-> company_url,
     scrapedData |-> EmptyDict, parsedDocuments |-> <<>>, analysisResults |-> EmptyDict,
     interviewerBrief |-> EmptyDict, intervieweePacket |-> EmptyDict,
     feedback |-> <<>>, metadata |-> metadata]

\* DynamoDBService.create_session: the record it builds.
create_session(sid, now, company_name, company_url, metadata) ==
    [sessionId |-> sid, createdAt |-> now, updatedAt |-> now, status |-> "CREATED",
     companyName |-> company_name, companyUrl |-> company_url,
     scrapedData |-> EmptyDict, parsedDocuments |-> <<>>, analysisResults |-> EmptyDict,
     interviewerBrief |-> EmptyDict, intervieweePacket |-> EmptyDict,
     feedback |-> <<>>, metadata |-> metadata]

\* Mutant of get_session: the oldest record of the partition is returned.
get_session_Oldest(tbl, sid) ==
    LET ks == {k \in DOMAIN tbl : k[1] = sid}
    IN  IF ks = {} THEN NoSession
        ELSE tbl[CHOOSE k \in ks : \A j \in ks : k[2] <= j[2]]

\* DynamoDBService.get_session: newest record of the partition, or None.
get_session(tbl, sid) ==
    LET ks == {k \in DOMAIN tbl : k[1] = sid}
    IN  IF ks = {} THEN NoSession
        ELSE tbl[CHOOSE k \in ks : \A j \in ks : j[2] <= k[2]]

\* Mutant of update_session_stamp: the creation time is stamped as well.
update_session_stamp_Created(updates, now) == Merge(updates, [updatedAt |-> now, createdAt |-> now])

\* DynamoDBService.update_session, first half: stamp updatedAt into the map.
update_session_stamp(updates, now) == Merge(updates, [updatedAt |-> now])

\* Mutant of store_feedback: the status is left for a later call.
store_feedback_FeedbackOnly(corrections, selected_questions, notes, now) ==
    [feedback |-> [corrections |-> corrections, selectedQuestions |-> selected_questions,
                   notes |-> notes, submittedAt |-> now]]

\* DynamoDBService.store_feedback: the map it hands to update_session.
store_feedback(corrections, selected_questions, notes, now) ==
    [feedback |-> [corrections |-> corrections, selectedQuestions |-> selected_questions,
                   notes |-> notes, submittedAt |-> now],
     status |-> "FEEDBACK_RECEIVED"]

ChangedFields(old, new) ==
    {f \in (DOMAIN old) \cup (DOMAIN new) :
        \/ f \notin DOMAIN old
        \/ f \notin DOMAIN new
        \/ old[f] # new[f]}

(* ------------------------------ requests ------------------------------ *)
NoReq == [handler |-> "none", sessionId |-> NoId, companyName |-> "", filename |-> "",
          source |-> "", text |-> "", corrections |-> ""]

NoLoc == [session |-> NoSession, createdAt |-> 0, updates |-> NoUpdates, data |-> ""]

(* ---------------------------- Python values --------------------------- *)
\* Values json.loads yields and dict literals the code builds, by type.
None == [t |-> "none"]
Num == [t |-> "num"]                           \* a JSON number
Str == [t |-> "str"]
Arr(items) == [t |-> "arr", items |-> items]   \* a list
Obj(items) == [t |-> "obj", items |-> items]   \* a parsed JSON object, members in order
Dict(fields) == [t |-> "dict", fields |-> fields]  \* a dict literal, by key

\* x.get(...) and x.keys() raise AttributeError unless x is a dict
HasGet(v) == v.t \in {"obj", "dict"}

\* len(x) raises TypeError unless x is sized
HasLen(v) == v.t \in {"obj", "dict", "arr", "str"}

\* A call outcome: a returned value, or the exception raised.
Value(v) == [ok |-> TRUE, val |-> v]
Raise(e) == [ok |-> FALSE, exc |-> e]

\* No BedrockService call in progress.
NoGen == [pc |-> "idle", op |-> "none", answered |-> FALSE, text |-> <<>>,
          profile |-> None, questions |-> None, out |-> Raise("none")]

Init ==
    /\ gen = NoGen
    /\ table = <<>>
    /\ blobs = <<>>
    /\ clock = 0
    /\ pc = [p \in Procs |-> "idle"]
    /\ req = [p \in Procs |-> NoReq]
    /\ loc = [p \in Procs |-> NoLoc]
    /\ resp = [p \in Procs |-> 0]
    /\ ret = [p \in Procs |-> NoSession]
    /\ calls = [p \in Procs |-> {}]
    /\ wrote = [p \in Procs |-> FALSE]
    /\ invocations = 0

\* The wall clock advances between any two steps.
Tick ==
    /\ clock < MaxClock
    /\ clock' = clock + 1
    /\ UNCHANGED <<table, blobs, pc, req, loc, resp, ret, calls, wrote, invocations, gen>>

(* --------------------------- external results ------------------------- *)
CompanyNames == {"Acme"}                  \* companyName given to CreateSession
ScrapeNames == {"Globex"}                 \* companyName given to ScrapeCompany
Filenames == {"b.pdf", "n.xyz"}
Sources == {"fileContent", "s3Key", "none"}
Texts == {"", "txt"}
CorrectionValues == {"list", "number"}    \* JSON list / JSON number in the body
ScrapeResults == {"sum0", "sum1"}         \* summary without / with combined_content
Analyses == {"anScored", "anBare"}        \* analysis with / without confidence scores
Briefs == {"briefDict", "briefList"}      \* parsed brief: JSON object / JSON array
Packets == {"packetDict"}

\* scraped_data.get("summary", {}).get("combined_content", "")
CombinedContent(summary) == IF summary = "sum1" THEN "txt" ELSE ""

\* filename.lower().rsplit(".", 1)[-1]
Extension(filename) ==
    CASE filename = "a.docx" -> "docx"
      [] filename = "b.pdf" -> "pdf"
      [] OTHER -> "xyz"

\* len(x) raises TypeError unless x is sized
Sized(x) == x = "list"

\* The field map holds a Python float (the rounded Comprehend scores), which
\* the DynamoDB resource refuses to serialize (TypeError).
HasFloat(updates) ==
    "analysisResults" \in DOMAIN updates /\ updates.analysisResults = "anScored"

\* list(brief.keys()) of a brief that follows the schema
BriefSections(brief) ==
    IF brief = "briefDict"
    THEN {"executive_summary", "company_overview", "industry_context",
          "pre_call_hypotheses", "questions", "conversation_flow", "key_facts"}
    ELSE {}

\* brief.keys() raises AttributeError unless brief is a dict
HasKeys(brief) == brief = "briefDict"

(* --------------------------- invocation frame ------------------------- *)
\* The invocation moves on to its next step with these locals and calls made.
Continue(p, to, newloc, newcalls) ==
    /\ pc' = [pc EXCEPT ![p] = to]
    /\ loc' = [loc EXCEPT ![p] = newloc]
    /\ calls' = [calls EXCEPT ![p] = newcalls]
    /\ UNCHANGED <<resp, wrote>>

\* The invocation returns after making these external calls: its locals are
\* gone, its request, its response and what it did stay visible to the caller.
Fail(p, code, newcalls) ==
    /\ pc' = [pc EXCEPT ![p] = "returned"]
    /\ resp' = [resp EXCEPT ![p] = code]
    /\ calls' = [calls EXCEPT ![p] = newcalls]
    /\ loc' = [loc EXCEPT ![p] = NoLoc]
    /\ UNCHANGED wrote

\* The invocation returns a response with this status code.
Return(p, code) == Fail(p, code, calls[p])

\* The response has been delivered, or the exception has reached the Lambda
\* runtime: the worker is free for the next invocation.
Release(p) ==
    /\ pc[p] \in {"returned", "raised"}
    /\ pc' = [pc EXCEPT ![p] = "idle"]
    /\ req' = [req EXCEPT ![p] = NoReq]
    /\ loc' = [loc EXCEPT ![p] = NoLoc]
    /\ resp' = [resp EXCEPT ![p] = 0]
    /\ ret' = [ret EXCEPT ![p] = NoSession]
    /\ calls' = [calls EXCEPT ![p] = {}]
    /\ wrote' = [wrote EXCEPT ![p] = FALSE]
    /\ UNCHANGED <<table, blobs, clock, invocations, gen>>

\* A new invocation on an idle worker; parse_body and the required-field
\* check either start the handler's first step or return 400.
Begin(p, r, ok, first) ==
    /\ pc[p] = "idle"
    /\ invocations < MaxInvocations
    /\ invocations' = invocations + 1
    /\ req' = [req EXCEPT ![p] = r]
    /\ IF ok THEN Continue(p, first, loc[p], calls[p]) ELSE Return(p, 400)
    /\ UNCHANGED <<table, blobs, clock, ret, gen>>

\* A new invocation on an idle worker raises before its first try block: the
\* exception leaves the handler, no response is built.
Raised(p, r) ==
    /\ pc[p] = "idle"
    /\ invocations < MaxInvocations
    /\ invocations' = invocations + 1
    /\ req' = [req EXCEPT ![p] = r]
    /\ pc' = [pc EXCEPT ![p] = "raised"]
    /\ UNCHANGED <<table, blobs, clock, loc, resp, ret, calls, wrote, gen>>

\* uuid.uuid4(): an identifier no record uses.
Unused(tbl) == {i \in SessionIds : \A k \in DOMAIN tbl : k[1] # i}

FreshId(tbl) == CHOOSE i \in Unused(tbl) : \A j \in Unused(tbl) : i <= j

HasFreshId(tbl) == Unused(tbl) # {}

(* --------------------------- create_session --------------------------- *)
CreateSession_Invoke(p) ==
    \E cn \in CompanyNames \cup {""} :
        /\ Cardinality(DOMAIN table) + Cardinality({q \in Procs : pc[q] = "create"}) < MaxSessions
        /\ Begin(p, [NoReq EXCEPT !.handler = "create_session", !.companyName = cn],
                 cn # "", "create")

\* db.create_session(company_name, company_url, metadata); success_response(session, 201):
\* the record stored is the record the response carries.
CreateSession_Put(p) ==
    /\ pc[p] = "create"
    /\ HasFreshId(table)
    /\ \/ LET item == create_session(FreshId(table), clock, req[p].companyName, "", EmptyDict) IN
            /\ table' = put_item(table, item)
            /\ ret' = [ret EXCEPT ![p] = item]
            /\ pc' = [pc EXCEPT ![p] = "returned"]
            /\ resp' = [resp EXCEPT ![p] = 201]
            /\ wrote' = [wrote EXCEPT ![p] = TRUE]
            /\ loc' = [loc EXCEPT ![p] = NoLoc]
            /\ UNCHANGED calls
       \/ /\ UNCHANGED <<table, ret>>
          /\ Return(p, 500)
    /\ UNCHANGED <<blobs, clock, req, invocations, gen>>

(* --------------------------- start_pipeline --------------------------- *)
StartPipeline_Invoke(p) ==
    \E cn \in CompanyNames \cup {""} :
        Begin(p, [NoReq EXCEPT !.handler = "start_pipeline", !.companyName = cn],
              cn # "", "pipeline_start")

\* STATE_MACHINE_ARN missing: 500; else sfn_client.start_execution(...)
StartPipeline_Start(p) ==
    /\ pc[p] = "pipeline_start"
    /\ \/ Return(p, 500)
       \/ Fail(p, 200, calls[p] \cup {"sfn"})
       \/ Fail(p, 500, calls[p] \cup {"sfn"})
    /\ UNCHANGED <<table, blobs, clock, req, ret, invocations, gen>>

(* --------------------------- scrape_company --------------------------- *)
\* Mutant of ScrapeCompany_Invoke: companyName is not required.
ScrapeCompany_Invoke_AnyName(p) ==
    \E sid \in SessionIds \cup {NoId}, cn \in ScrapeNames \cup {""} :
        Begin(p, [NoReq EXCEPT !.handler = "scrape_company", !.sessionId = sid, !.companyName = cn],
              sid # NoId, "scrape")

ScrapeCompany_Invoke(p) ==
    \E sid \in SessionIds \cup {NoId}, cn \in ScrapeNames \cup {""} :
        Begin(p, [NoReq EXCEPT !.handler = "scrape_company", !.sessionId = sid, !.companyName = cn],
              sid # NoId /\ cn # "", "scrape")

\* scraper.scrape_company(company_name, company_url)
ScrapeCompany_Scrape(p) ==
    /\ pc[p] = "scrape"
    /\ \/ \E d \in ScrapeResults :
            Continue(p, "scrape_upload", [loc[p] EXCEPT !.data = d], calls[p] \cup {"web"})
       \/ Fail(p, 500, calls[p] \cup {"web"})
    /\ UNCHANGED <<table, blobs, clock, req, ret, invocations, gen>>

\* s3.upload_document(..., filename="scraped_data.json", prefix="scraped")
\* Mutant of ScrapeCompany_Upload: an empty document is uploaded.
ScrapeCompany_Upload_Empty(p) ==
    /\ pc[p] = "scrape_upload"
    /\ \/ /\ blobs' = Merge(blobs, <<"scraped", req[p].sessionId>> :> EmptyDict)
          /\ Continue(p, "scrape_get", loc[p], calls[p] \cup {"blob"})
       \/ /\ UNCHANGED blobs
          /\ Return(p, 500)
    /\ UNCHANGED <<table, clock, req, ret, invocations, gen>>

ScrapeCompany_Upload(p) ==
    /\ pc[p] = "scrape_upload"
    /\ \/ /\ blobs' = Merge(blobs, <<"scraped", req[p].sessionId>> :> loc[p].data)
          /\ Continue(p, "scrape_get", loc[p], calls[p] \cup {"blob"})
       \/ /\ UNCHANGED blobs
          /\ Return(p, 500)
    /\ UNCHANGED <<table, clock, req, ret, invocations, gen>>

\* Mutant of ScrapeCompany_Get: the request's companyName is merged as well.
ScrapeCompany_Get_Renames(p) ==
    /\ pc[p] = "scrape_get"
    /\ \/ LET session == get_session(table, req[p].sessionId) IN
            IF session # NoSession
            THEN Continue(p, "stamp",
                          [loc[p] EXCEPT !.session = session,
                                         !.createdAt = session.createdAt,
                                         !.updates = [scrapedData |-> loc[p].data,
                                                      companyName |-> req[p].companyName,
                                                      status |-> "SCRAPING_COMPLETE"]],
                          calls[p])
            ELSE Return(p, 200)
       \/ Return(p, 500)
    /\ UNCHANGED <<table, blobs, clock, req, ret, invocations, gen>>

\* session = db.get_session(session_id); if session: db.update_session(...)
ScrapeCompany_Get(p) ==
    /\ pc[p] = "scrape_get"
    /\ \/ LET session == get_session(table, req[p].sessionId) IN
            IF session # NoSession
            THEN Continue(p, "stamp",
                          [loc[p] EXCEPT !.session = session,
                                         !.createdAt = session.createdAt,
                                         !.updates = [scrapedData |-> loc[p].data,
                                                      status |-> "SCRAPING_COMPLETE"]],
                          calls[p])
            ELSE Return(p, 200)
       \/ Return(p, 500)
    /\ UNCHANGED <<table, blobs, clock, req, ret, invocations, gen>>

(* --------------------------- parse_document --------------------------- *)
ParseDocument_Invoke(p) ==
    \E sid \in SessionIds \cup {NoId}, fn \in Filenames \cup {""}, src \in Sources :
        Begin(p, [NoReq EXCEPT !.handler = "parse_document", !.sessionId = sid,
                               !.filename = fn, !.source = src],
              sid # NoId /\ fn # "", "parse_source")

UploadKey(p) == <<"uploads", req[p].sessionId, req[p].filename>>

\* file_bytes from base64 fileContent, else s3.get_document(s3Key), else 400;
\* a body that is not base64 and a key that cannot be read raise (500)
ParseDocument_Source(p) ==
    /\ pc[p] = "parse_source"
    /\ CASE req[p].source = "fileContent" ->
                \/ Continue(p, "parse_upload", loc[p], calls[p])
                \/ Return(p, 500)
         [] req[p].source = "s3Key" ->
                \/ /\ UploadKey(p) \in DOMAIN blobs
                   /\ Continue(p, "parse_upload", loc[p], calls[p] \cup {"blob"})
                \/ Fail(p, 500, calls[p] \cup {"blob"})
         [] OTHER -> Return(p, 400)
    /\ UNCHANGED <<table, blobs, clock, req, ret, invocations, gen>>

\* Mutant of ParseDocument_Upload: extraction is attempted without the upload.
ParseDocument_Upload_Skipped(p) ==
    /\ pc[p] = "parse_upload"
    /\ \/ /\ UNCHANGED blobs
          /\ Continue(p, "parse_extract", loc[p], calls[p])
       \/ /\ UNCHANGED blobs
          /\ Return(p, 500)
    /\ UNCHANGED <<table, clock, req, ret, invocations, gen>>

\* TextractService.upload_and_process: s3_client.put_object(Key=uploads/{sid}/{filename})
ParseDocument_Upload(p) ==
    /\ pc[p] = "parse_upload"
    /\ \/ /\ blobs' = Merge(blobs, UploadKey(p) :> "bytes")
          /\ Continue(p, "parse_extract", loc[p], calls[p] \cup {"blob"})
       \/ /\ UNCHANGED blobs
          /\ Return(p, 500)
    /\ UNCHANGED <<table, clock, req, ret, invocations, gen>>

\* TextractService.upload_and_process: the result of the extraction by extension
ExtractResult(filename) ==
    CASE Extension(filename) = "docx" -> [method |-> "python-docx", text_length |-> 1]
      [] Extension(filename) = "pdf" -> [method |-> "textract", text_length |-> 1]
      [] OTHER -> [method |-> "unsupported", text_length |-> 0]

\* the parsedDocuments entry the handler appends
ParsedEntry(p) ==
    [filename |-> req[p].filename,
     method |-> ExtractResult(req[p].filename).method,
     text_length |-> ExtractResult(req[p].filename).text_length,
     s3_key |-> UploadKey(p)]

\* Mutant of ParseDocument_Extract: an unknown extension is an error.
ParseDocument_Extract_RejectsUnknown(p) ==
    /\ pc[p] = "parse_extract"
    /\ \/ /\ Extension(req[p].filename) \in {"docx", "pdf"}
          /\ Continue(p, "parse_get", loc[p],
                      calls[p] \cup (IF Extension(req[p].filename) = "pdf" THEN {"ocr"} ELSE {}))
       \/ Fail(p, 500, calls[p] \cup (IF Extension(req[p].filename) = "pdf" THEN {"ocr"} ELSE {}))
    /\ UNCHANGED <<table, blobs, clock, req, ret, invocations, gen>>

\* TextractService.upload_and_process: route by extension and extract
ParseDocument_Extract(p) ==
    /\ pc[p] = "parse_extract"
    /\ \/ Continue(p, "parse_get", loc[p],
                   calls[p] \cup (IF Extension(req[p].filename) = "pdf" THEN {"ocr"} ELSE {}))
       \/ /\ Extension(req[p].filename) \in {"docx", "pdf"}
          /\ Fail(p, 500, calls[p] \cup (IF Extension(req[p].filename) = "pdf" THEN {"ocr"} ELSE {}))
    /\ UNCHANGED <<table, blobs, clock, req, ret, invocations, gen>>

\* Mutant of ParsedDocumentsOf: the handler starts from an empty list.
ParsedDocumentsOf_Fresh(session) == <<>>

\* session.get("parsedDocuments", [])
ParsedDocumentsOf(session) ==
    IF "parsedDocuments" \in DOMAIN session THEN session.parsedDocuments ELSE <<>>

\* Mutant of ParseDocument_Get: one entry per file, an earlier entry of the
\* same file is replaced.
ParseDocument_Get_OncePerFile(p) ==
    /\ pc[p] = "parse_get"
    /\ \/ LET session == get_session(table, req[p].sessionId) IN
            IF session # NoSession
            THEN Continue(p, "stamp",
                          [loc[p] EXCEPT !.session = session,
                                         !.createdAt = session.createdAt,
                                         !.updates = [parsedDocuments |->
                                             Append(SelectSeq(ParsedDocumentsOf(session),
                                                              LAMBDA e : e.filename # req[p].filename),
                                                    ParsedEntry(p))]],
                          calls[p])
            ELSE Return(p, 200)
       \/ Return(p, 500)
    /\ UNCHANGED <<table, blobs, clock, req, ret, invocations, gen>>

\* session = db.get_session(session_id); if session: append entry, db.update_session(...)
ParseDocument_Get(p) ==
    /\ pc[p] = "parse_get"
    /\ \/ LET session == get_session(table, req[p].sessionId) IN
            IF session # NoSession
            THEN Continue(p, "stamp",
                          [loc[p] EXCEPT !.session = session,
                                         !.createdAt = session.createdAt,
                                         !.updates = [parsedDocuments |->
                                             Append(ParsedDocumentsOf(session), ParsedEntry(p))]],
                          calls[p])
            ELSE Return(p, 200)
       \/ Return(p, 500)
    /\ UNCHANGED <<table, blobs, clock, req, ret, invocations, gen>>

(* --------------------------- analyze_company -------------------------- *)
AnalyzeCompany_Invoke(p) ==
    \E sid \in SessionIds \cup {NoId}, txt \in Texts :
        Begin(p, [NoReq EXCEPT !.handler = "analyze_company", !.sessionId = sid, !.text = txt],
              sid # NoId, "analyze_load")

ScrapedKey(sid) == <<"scraped", sid>>

\* text = body.get("text", ""), else combined_content of the scraped blob, else ""
AnalyzeText(p) ==
    IF req[p].text # "" THEN req[p].text
    ELSE IF ScrapedKey(req[p].sessionId) \in DOMAIN blobs
         THEN CombinedContent(blobs[ScrapedKey(req[p].sessionId)])
         ELSE ""

\* Mutant of AnalyzeCompany_Analyze: the analysis runs on whatever text there is.
AnalyzeCompany_Analyze_AnyText(p) ==
    /\ pc[p] = "analyze_load"
    /\ LET loaded == calls[p] \cup (IF req[p].text = "" THEN {"blob"} ELSE {}) IN
        \/ \E a \in Analyses :
                Continue(p, "analyze_get", [loc[p] EXCEPT !.data = a], loaded \cup {"nlp"})
        \/ Fail(p, 500, loaded \cup {"nlp"})
    /\ UNCHANGED <<table, blobs, clock, req, ret, invocations, gen>>

\* load the text (400 when none: no text given and the blob is missing, empty
\* or unreadable), then nlp.analyze_text(text)
AnalyzeCompany_Analyze(p) ==
    /\ pc[p] = "analyze_load"
    /\ LET loaded == calls[p] \cup (IF req[p].text = "" THEN {"blob"} ELSE {}) IN
        \/ /\ AnalyzeText(p) = "" \/ req[p].text = ""
           /\ Fail(p, 400, loaded)
        \/ /\ AnalyzeText(p) # ""
           /\ \/ \E a \in Analyses :
                    Continue(p, "analyze_get", [loc[p] EXCEPT !.data = a], loaded \cup {"nlp"})
              \/ Fail(p, 500, loaded \cup {"nlp"})
    /\ UNCHANGED <<table, blobs, clock, req, ret, invocations, gen>>

\* Mutant of AnalyzeCompany_Get: the whole record read is written back with the results.
AnalyzeCompany_Get_WholeRecord(p) ==
    /\ pc[p] = "analyze_get"
    /\ \/ LET session == get_session(table, req[p].sessionId) IN
            IF session # NoSession
            THEN Continue(p, "stamp",
                          [loc[p] EXCEPT !.session = session,
                                         !.createdAt = session.createdAt,
                                         !.updates = [f \in (DOMAIN session) \ KeyFields |->
                                                        CASE f = "analysisResults" -> loc[p].data
                                                          [] f = "status" -> "ANALYSIS_COMPLETE"
                                                          [] OTHER -> session[f]]],
                          calls[p])
            ELSE Return(p, 200)
       \/ Return(p, 500)
    /\ UNCHANGED <<table, blobs, clock, req, ret, invocations, gen>>

\* session = db.get_session(session_id); if session: db.update_session(...)
AnalyzeCompany_Get(p) ==
    /\ pc[p] = "analyze_get"
    /\ \/ LET session == get_session(table, req[p].sessionId) IN
            IF session # NoSession
            THEN Continue(p, "stamp",
                          [loc[p] EXCEPT !.session = session,
                                         !.createdAt = session.createdAt,
                                         !.updates = [analysisResults |-> loc[p].data,
                                                      status |-> "ANALYSIS_COMPLETE"]],
                          calls[p])
            ELSE Return(p, 200)
       \/ Return(p, 500)
    /\ UNCHANGED <<table, blobs, clock, req, ret, invocations, gen>>

(* --------------------------- generate_brief --------------------------- *)
GenerateBrief_Invoke(p) ==
    \E sid \in SessionIds \cup {NoId} :
        Begin(p, [NoReq EXCEPT !.handler = "generate_brief", !.sessionId = sid],
              sid # NoId, "generate_get")

\* Mutant of GenerateBrief_Get: the session is marked READY as soon as it is found.
GenerateBrief_Get_ReadyFirst(p) ==
    /\ pc[p] = "generate_get"
    /\ \/ LET session == get_session(table, req[p].sessionId) IN
            IF session # NoSession
            THEN /\ Continue(p, "generate_ai",
                             [loc[p] EXCEPT !.session = session, !.createdAt = session.createdAt],
                             calls[p])
                 /\ table' = update_item(table, Key(session.sessionId, session.createdAt),
                                         [status |-> "READY"])
            ELSE Return(p, 404) /\ UNCHANGED table
       \/ Return(p, 500) /\ UNCHANGED table
    /\ UNCHANGED <<blobs, clock, req, ret, invocations, gen>>

\* session = db.get_session(session_id); if not session: 404
GenerateBrief_Get(p) ==
    /\ pc[p] = "generate_get"
    /\ \/ LET session == get_session(table, req[p].sessionId) IN
            IF session # NoSession
            THEN Continue(p, "generate_ai",
                          [loc[p] EXCEPT !.session = session, !.createdAt = session.createdAt],
                          calls[p])
            ELSE Return(p, 404)
       \/ Return(p, 500)
    /\ UNCHANGED <<table, blobs, clock, req, ret, invocations, gen>>

\* Mutant of GenerateBrief_Generate: a failed backend call yields an empty
\* brief and packet and the handler goes on.
GenerateBrief_Generate_Degrades(p) ==
    /\ pc[p] = "generate_ai"
    /\ \/ \E b \in Briefs, k \in Packets :
            Continue(p, "generate_upload_brief",
                     [loc[p] EXCEPT !.updates = [interviewerBrief |-> b,
                                                 intervieweePacket |-> k,
                                                 status |-> "READY"]],
                     calls[p] \cup {"gen"})
       \/ Continue(p, "generate_upload_brief",
                   [loc[p] EXCEPT !.updates = [interviewerBrief |-> EmptyDict,
                                               intervieweePacket |-> EmptyDict,
                                               status |-> "READY"]],
                   calls[p] \cup {"gen"})
    /\ UNCHANGED <<table, blobs, clock, req, ret, invocations, gen>>

\* the four bedrock calls: profile, questions, brief, packet
GenerateBrief_Generate(p) ==
    /\ pc[p] = "generate_ai"
    /\ \/ \E b \in Briefs, k \in Packets :
            Continue(p, "generate_upload_brief",
                     [loc[p] EXCEPT !.updates = [interviewerBrief |-> b,
                                                 intervieweePacket |-> k,
                                                 status |-> "READY"]],
                     calls[p] \cup {"gen"})
       \/ Fail(p, 500, calls[p] \cup {"gen"})
    /\ UNCHANGED <<table, blobs, clock, req, ret, invocations, gen>>

\* s3.upload_document(..., filename="interviewer_brief.json", prefix="briefs")
GenerateBrief_UploadBrief(p) ==
    /\ pc[p] = "generate_upload_brief"
    /\ \/ /\ blobs' = Merge(blobs, <<"briefs", req[p].sessionId>> :> loc[p].updates.interviewerBrief)
          /\ Continue(p, "generate_upload_packet", loc[p], calls[p] \cup {"blob"})
       \/ /\ UNCHANGED blobs
          /\ Return(p, 500)
    /\ UNCHANGED <<table, clock, req, ret, invocations, gen>>

\* s3.upload_document(..., filename="interviewee_packet.json", prefix="packets")
GenerateBrief_UploadPacket(p) ==
    /\ pc[p] = "generate_upload_packet"
    /\ \/ /\ blobs' = Merge(blobs, <<"packets", req[p].sessionId>> :> loc[p].updates.intervieweePacket)
          /\ Continue(p, "stamp", loc[p], calls[p])
       \/ /\ UNCHANGED blobs
          /\ Return(p, 500)
    /\ UNCHANGED <<table, clock, req, ret, invocations, gen>>

(* ----------------------------- get_session --------------------------- *)
\* session_id = event.get("pathParameters", {}).get("sessionId"), as in
\* submit_feedback: 400 without a sessionId, AttributeError when the value of
\* pathParameters is None.
GetSession_Invoke(p) ==
    \/ \E sid \in SessionIds \cup {NoId} :
            Begin(p, [NoReq EXCEPT !.handler = "get_session", !.sessionId = sid],
                  sid # NoId, "session_get")
    \/ Raised(p, [NoReq EXCEPT !.handler = "get_session"])

\* session = db.get_session(session_id): 404 when None, else
\* success_response(session); 500 when the query raises.
GetSession_Get(p) ==
    /\ pc[p] = "session_get"
    /\ \/ LET session == get_session(table, req[p].sessionId) IN
            IF session = NoSession THEN Return(p, 404) /\ UNCHANGED ret
            ELSE /\ Return(p, 200)
                 /\ ret' = [ret EXCEPT ![p] = session]
       \/ Return(p, 500) /\ UNCHANGED ret
    /\ UNCHANGED <<table, blobs, clock, req, invocations, gen>>

(* --------------------------- submit_feedback -------------------------- *)
\* event.get("pathParameters", {}).get("sessionId"): a dict with or without
\* the sessionId (or no pathParameters key at all), or the key present with
\* the value None, and then None.get raises AttributeError outside any try.
SubmitFeedback_Invoke(p) ==
    \/ \E sid \in SessionIds \cup {NoId}, c \in CorrectionValues :
            Begin(p, [NoReq EXCEPT !.handler = "submit_feedback", !.sessionId = sid, !.corrections = c],
                  sid # NoId, "feedback_get")
    \/ Raised(p, [NoReq EXCEPT !.handler = "submit_feedback"])

\* Mutant of SubmitFeedback_Get: a missing session is stored into, keyed by now.
SubmitFeedback_Get_Upserts(p) ==
    /\ pc[p] = "feedback_get"
    /\ \/ LET session == get_session(table, req[p].sessionId) IN
            Continue(p, "feedback_store",
                     [loc[p] EXCEPT !.session = session,
                                    !.createdAt = IF session # NoSession THEN session.createdAt
                                                  ELSE clock],
                     calls[p])
       \/ Return(p, 500)
    /\ UNCHANGED <<table, blobs, clock, req, ret, invocations, gen>>

\* session = db.get_session(session_id); if not session: 404
SubmitFeedback_Get(p) ==
    /\ pc[p] = "feedback_get"
    /\ \/ LET session == get_session(table, req[p].sessionId) IN
            IF session # NoSession
            THEN Continue(p, "feedback_store",
                          [loc[p] EXCEPT !.session = session, !.createdAt = session.createdAt],
                          calls[p])
            ELSE Return(p, 404)
       \/ Return(p, 500)
    /\ UNCHANGED <<table, blobs, clock, req, ret, invocations, gen>>

\* Mutant of SubmitFeedback_Store: the notes of an earlier submission are
\* kept and added to.
SubmitFeedback_Store_Accumulates(p) ==
    /\ pc[p] = "feedback_store"
    /\ Continue(p, "stamp",
                [loc[p] EXCEPT !.updates =
                    store_feedback(req[p].corrections, "list",
                                   IF DOMAIN loc[p].session.feedback # {} THEN "again" ELSE "",
                                   clock)],
                calls[p])
    /\ UNCHANGED <<table, blobs, clock, req, ret, invocations, gen>>

\* db.store_feedback(...): build feedback with submittedAt = now, call update_session
SubmitFeedback_Store(p) ==
    /\ pc[p] = "feedback_store"
    /\ Continue(p, "stamp",
                [loc[p] EXCEPT !.updates = store_feedback(req[p].corrections, "list", "", clock)],
                calls[p])
    /\ UNCHANGED <<table, blobs, clock, req, ret, invocations, gen>>

(* --------------------------- update_session --------------------------- *)
\* now = datetime.now(timezone.utc).isoformat(); updates["updatedAt"] = now
update_session_Stamp(p) ==
    /\ pc[p] = "stamp"
    /\ Continue(p, "update", [loc[p] EXCEPT !.updates = update_session_stamp(@, clock)], calls[p])
    /\ UNCHANGED <<table, blobs, clock, req, ret, invocations, gen>>

\* Mutant of update_session_UpdateItem: the update is addressed with the
\* current time as sort key.
update_session_UpdateItem_KeyedByNow(p) ==
    /\ pc[p] = "update"
    /\ \/ LET key == Key(req[p].sessionId, clock) IN
            /\ ~HasFloat(loc[p].updates)
            /\ table' = update_item(table, key, loc[p].updates)
            /\ ret' = [ret EXCEPT ![p] = table'[key]]
            /\ wrote' = [wrote EXCEPT ![p] = TRUE]
            /\ pc' = [pc EXCEPT ![p] = "updated"]
            /\ UNCHANGED <<loc, calls, resp>>
       \/ /\ UNCHANGED <<table, ret>>
          /\ Return(p, 500)
    /\ UNCHANGED <<blobs, clock, req, invocations, gen>>

\* self.table.update_item(...); return response.get("Attributes", {})
update_session_UpdateItem(p) ==
    /\ pc[p] = "update"
    /\ \/ LET key == Key(req[p].sessionId, loc[p].createdAt) IN
            /\ ~HasFloat(loc[p].updates)
            /\ table' = update_item(table, key, loc[p].updates)
            /\ ret' = [ret EXCEPT ![p] = table'[key]]
            /\ wrote' = [wrote EXCEPT ![p] = TRUE]
            /\ pc' = [pc EXCEPT ![p] = "updated"]
            /\ UNCHANGED <<loc, calls, resp>>
       \/ /\ UNCHANGED <<table, ret>>
          /\ Return(p, 500)
    /\ UNCHANGED <<blobs, clock, req, invocations, gen>>

\* What the caller of update_session does with its return: build the result.
AfterUpdate(p) ==
    CASE req[p].handler = "generate_brief" ->
            IF HasKeys(loc[p].updates.interviewerBrief) THEN 200 ELSE 500
      [] req[p].handler = "submit_feedback" ->
            IF Sized(req[p].corrections) THEN 200 ELSE 500
      [] OTHER -> 200

Caller_Respond(p) ==
    /\ pc[p] = "updated"
    /\ Return(p, AfterUpdate(p))
    /\ ret' = [ret EXCEPT ![p] = NoSession]
    /\ UNCHANGED <<table, blobs, clock, req, invocations, gen>>

(* ----------------------- direct calls of the store --------------------- *)
\* The field maps a caller hands to update_session.
UpdateMaps ==
    {NoUpdates,
     [status |-> "READY"],
     [updatedAt |-> 0],
     [scrapedData |-> "sum1", status |-> "SCRAPING_COMPLETE"],
     [parsedDocuments |-> <<>>, metadata |-> "m"]}

\* db.update_session(session_id, created_at, updates) called on any composite key
Store_update_session(p) ==
    \E sid \in SessionIds, created_at \in Times, updates \in UpdateMaps :
        /\ pc[p] = "idle"
        /\ invocations < MaxInvocations
        /\ invocations' = invocations + 1
        /\ req' = [req EXCEPT ![p] = [NoReq EXCEPT !.handler = "update_session", !.sessionId = sid]]
        /\ Continue(p, "stamp", [loc[p] EXCEPT !.createdAt = created_at, !.updates = updates], calls[p])
        /\ UNCHANGED <<table, blobs, clock, ret, gen>>

StoreNext ==
    \/ Tick
    \/ \E p \in Procs :
        \/ CreateSession_Invoke(p)
        \/ CreateSession_Put(p)
        \/ Store_update_session(p)
        \/ update_session_Stamp(p)
        \/ update_session_UpdateItem(p)
        \/ Caller_Respond(p)
        \/ Release(p)

StoreSpec == Init /\ [][StoreNext]_vars

\* Direct calls of the store next to readers: GetSession and SubmitFeedback
\* invocations over tables that hold several records under one sessionId.
ReadNext ==
    \/ Tick
    \/ \E p \in Procs :
        \/ CreateSession_Invoke(p)
        \/ CreateSession_Put(p)
        \/ Store_update_session(p)
        \/ GetSession_Invoke(p)
        \/ GetSession_Get(p)
        \/ SubmitFeedback_Invoke(p)
        \/ SubmitFeedback_Get(p)
        \/ SubmitFeedback_Store(p)
        \/ update_session_Stamp(p)
        \/ update_session_UpdateItem(p)
        \/ Caller_Respond(p)
        \/ Release(p)

ReadSpec == Init /\ [][ReadNext]_vars

Next ==
    \/ Tick
    \/ \E p \in Procs :
        \/ CreateSession_Invoke(p)
        \/ CreateSession_Put(p)
        \/ StartPipeline_Invoke(p)
        \/ StartPipeline_Start(p)
        \/ ScrapeCompany_Invoke(p)
        \/ ScrapeCompany_Scrape(p)
        \/ ScrapeCompany_Upload(p)
        \/ ScrapeCompany_Get(p)
        \/ ParseDocument_Invoke(p)
        \/ ParseDocument_Source(p)
        \/ ParseDocument_Upload(p)
        \/ ParseDocument_Extract(p)
        \/ ParseDocument_Get(p)
        \/ AnalyzeCompany_Invoke(p)
        \/ AnalyzeCompany_Analyze(p)
        \/ AnalyzeCompany_Get(p)
        \/ GenerateBrief_Invoke(p)
        \/ GenerateBrief_Get(p)
        \/ GenerateBrief_Generate(p)
        \/ GenerateBrief_UploadBrief(p)
        \/ GenerateBrief_UploadPacket(p)
        \/ GetSession_Invoke(p)
        \/ GetSession_Get(p)
        \/ SubmitFeedback_Invoke(p)
        \/ SubmitFeedback_Get(p)
        \/ SubmitFeedback_Store(p)
        \/ update_session_Stamp(p)
        \/ update_session_UpdateItem(p)
        \/ Caller_Respond(p)
        \/ Release(p)

Spec == Init /\ [][Next]_vars

(* ------------------- the stages run one after another ----------------- *)
\* The session CreateSession("Acme") leaves behind.
PipelineInit ==
    /\ gen = NoGen
    /\ table = put_item(<<>>, create_session(FreshId(<<>>), 0, "Acme", "", EmptyDict))
    /\ blobs = <<>>
    /\ clock = 0
    /\ pc = [p \in Procs |-> "idle"]
    /\ req = [p \in Procs |-> NoReq]
    /\ loc = [p \in Procs |-> NoLoc]
    /\ resp = [p \in Procs |-> 0]
    /\ ret = [p \in Procs |-> NoSession]
    /\ calls = [p \in Procs |-> {}]
    /\ wrote = [p \in Procs |-> FALSE]
    /\ invocations = 0

\* n stages have run and returned.
Ran(n) == invocations = n /\ \A q \in Procs : pc[q] = "idle"

\* The request names the session and passes the input checks.
ForSession(p) ==
    /\ pc'[p] # "returned"
    /\ get_session(table, req'[p].sessionId) # NoSession

\* Every backend answers: scrape, blob store, Comprehend, Bedrock, DynamoDB.
\* The step fails only where the handler's own code raises.
Answers(p) ==
    pc'[p] = "returned" =>
        \/ pc[p] = "updated"
        \/ pc[p] = "update" /\ HasFloat(loc[p].updates)

PipelineNext ==
    \/ Tick
    \/ \E p \in Procs :
        \/ Ran(0) /\ ScrapeCompany_Invoke(p) /\ ForSession(p)
        \/ ScrapeCompany_Scrape(p) /\ CombinedContent(loc'[p].data) # ""
        \/ ScrapeCompany_Upload(p) /\ Answers(p)
        \/ ScrapeCompany_Get(p) /\ Answers(p)
        \/ Ran(1) /\ AnalyzeCompany_Invoke(p) /\ ForSession(p) /\ req'[p].text = ""
        \/ AnalyzeCompany_Analyze(p) /\ loc'[p].data = "anScored"
        \/ AnalyzeCompany_Get(p) /\ Answers(p)
        \/ Ran(2) /\ GenerateBrief_Invoke(p) /\ ForSession(p)
        \/ GenerateBrief_Get(p) /\ Answers(p)
        \/ GenerateBrief_Generate(p) /\ Answers(p) /\ loc'[p].updates.interviewerBrief = "briefDict"
        \/ GenerateBrief_UploadBrief(p) /\ Answers(p)
        \/ GenerateBrief_UploadPacket(p) /\ Answers(p)
        \/ update_session_Stamp(p)
        \/ update_session_UpdateItem(p) /\ Answers(p)
        \/ Caller_Respond(p)
        \/ Release(p)

PipelineSpec == PipelineInit /\ [][PipelineNext]_vars

(* ----------------- invocations that do not overlap -------------------- *)
\* No invocation is in flight.
Quiet == \A q \in Procs : pc[q] \in {"idle", "returned", "raised"}

\* The empty table: the session is created by the first invocation.
SequentialInit == Init

\* Every handler, each invocation starting only after the previous one has
\* returned.
SequentialNext ==
    \/ Tick
    \/ \E p \in Procs :
        \/ Quiet /\ CreateSession_Invoke(p)
        \/ CreateSession_Put(p)
        \/ Quiet /\ ScrapeCompany_Invoke(p)
        \/ ScrapeCompany_Scrape(p)
        \/ ScrapeCompany_Upload(p)
        \/ ScrapeCompany_Get(p)
        \/ Quiet /\ ParseDocument_Invoke(p)
        \/ ParseDocument_Source(p)
        \/ ParseDocument_Upload(p)
        \/ ParseDocument_Extract(p)
        \/ ParseDocument_Get(p)
        \/ Quiet /\ AnalyzeCompany_Invoke(p)
        \/ AnalyzeCompany_Analyze(p)
        \/ AnalyzeCompany_Get(p)
        \/ Quiet /\ GenerateBrief_Invoke(p)
        \/ GenerateBrief_Get(p)
        \/ GenerateBrief_Generate(p)
        \/ GenerateBrief_UploadBrief(p)
        \/ GenerateBrief_UploadPacket(p)
        \/ Quiet /\ GetSession_Invoke(p)
        \/ GetSession_Get(p)
        \/ Quiet /\ SubmitFeedback_Invoke(p)
        \/ SubmitFeedback_Get(p)
        \/ SubmitFeedback_Store(p)
        \/ update_session_Stamp(p)
        \/ update_session_UpdateItem(p)
        \/ Caller_Respond(p)
        \/ Release(p)

SequentialSpec == SequentialInit /\ [][SequentialNext]_vars

(* --------------------------- bedrock_service -------------------------- *)
\* Response text as a sequence of tokens; whitespace between tokens is not
\* kept, so text.strip() and json.loads' own skipping have nothing to remove.
\*   "{" "}" "[" "]"  JSON punctuation (members and elements are juxtaposed)
\*   "1"              a JSON number
\*   "w"              a word of prose
\*   "fence"          a code fence (three backquotes),  "json" its language tag
Tokens == {"{", "}", "[", "]", "1", "w", "fence", "json"}

TextsUpTo(n) == UNION {[1..k -> Tokens] : k \in 0..n}

NoParse == [ok |-> FALSE, val |-> None, next |-> 0]

\* json.loads, by recursive descent: the value that starts at t[i] and the
\* index after it; the members of an object or array up to its closer.
RECURSIVE ParseValue(_, _), ParseItems(_, _, _)
ParseValue(t, i) ==
    IF i > Len(t) THEN NoParse
    ELSE CASE t[i] = "1" -> [ok |-> TRUE, val |-> Num, next |-> i + 1]
           [] t[i] = "{" ->
                LET r == ParseItems(t, i + 1, "}")
                IN  IF r.ok THEN [ok |-> TRUE, val |-> Obj(r.val), next |-> r.next] ELSE NoParse
           [] t[i] = "[" ->
                LET r == ParseItems(t, i + 1, "]")
                IN  IF r.ok THEN [ok |-> TRUE, val |-> Arr(r.val), next |-> r.next] ELSE NoParse
           [] OTHER -> NoParse

ParseItems(t, i, closer) ==
    IF i > Len(t) THEN NoParse
    ELSE IF t[i] = closer THEN [ok |-> TRUE, val |-> <<>>, next |-> i + 1]
    ELSE LET v == ParseValue(t, i) IN
         IF ~v.ok THEN NoParse
         ELSE LET r == ParseItems(t, v.next, closer) IN
              IF ~r.ok THEN NoParse
              ELSE [ok |-> TRUE, val |-> <<v.val>> \o r.val, next |-> r.next]

\* json.loads(t): the value, or JSONDecodeError (trailing data included)
json_loads(t) ==
    LET r == ParseValue(t, 1)
    IN  IF r.ok /\ r.next = Len(t) + 1 THEN Value(r.val) ELSE Raise("JSONDecodeError")

\* str.find / str.rfind; 0 stands for -1 in Python
Find(t, c) ==
    IF \E i \in DOMAIN t : t[i] = c
    THEN CHOOSE i \in DOMAIN t : t[i] = c /\ \A j \in 1..(i - 1) : t[j] # c
    ELSE 0

RFind(t, c) ==
    IF \E i \in DOMAIN t : t[i] = c
    THEN CHOOSE i \in DOMAIN t : t[i] = c /\ \A j \in (i + 1)..Len(t) : t[j] # c
    ELSE 0

\* re.search(fence (?:json)? \s* \n? (.*?) \n? fence, stripped, re.DOTALL): the match
\* starts at the first fence and ends at the next one; group(1) is what lies
\* between, without the tag.
FenceMatches(t) == Cardinality({i \in DOMAIN t : t[i] = "fence"}) >= 2

FenceGroup(t) ==
    LET a == Find(t, "fence")
        b == CHOOSE i \in (a + 1)..Len(t) :
                t[i] = "fence" /\ \A j \in (a + 1)..(i - 1) : t[j] # "fence"
        tag == IF t[a + 1] = "json" THEN 1 ELSE 0
    IN  SubSeq(t, a + 1 + tag, b - 1)

\* stripped[start_idx : end_idx + 1] for one pair of delimiters, parsed
SpanParse(t, start_char, end_char) ==
    LET start_idx == Find(t, start_char)
        end_idx == RFind(t, end_char)
    IN  IF start_idx # 0 /\ end_idx > start_idx
        THEN json_loads(SubSeq(t, start_idx, end_idx))
        ELSE Raise("JSONDecodeError")

\* Mutant of parse_json_response: the brace and bracket spans are tried
\* before the fenced block.
parse_json_response_SpanFirst(text) ==
    IF json_loads(text).ok THEN json_loads(text)
    ELSE IF SpanParse(text, "{", "}").ok THEN SpanParse(text, "{", "}")
    ELSE IF SpanParse(text, "[", "]").ok THEN SpanParse(text, "[", "]")
    ELSE IF FenceMatches(text) /\ json_loads(FenceGroup(text)).ok
         THEN json_loads(FenceGroup(text))
    ELSE Raise("ValueError")

\* BedrockService._parse_json_response
parse_json_response(text) ==
    IF json_loads(text).ok THEN json_loads(text)
    ELSE IF FenceMatches(text) /\ json_loads(FenceGroup(text)).ok
         THEN json_loads(FenceGroup(text))
    ELSE IF SpanParse(text, "{", "}").ok THEN SpanParse(text, "{", "}")
    ELSE IF SpanParse(text, "[", "]").ok THEN SpanParse(text, "[", "]")
    ELSE Raise("ValueError")

\* The fallback of generate_company_profile
ProfileFallback ==
    Dict([name |-> Str, industry |-> Str, region |-> Str, stage |-> Str,
          description |-> Str, business_model |-> Dict(<<>>), key_people |-> Arr(<<>>),
          competitors |-> Arr(<<>>), key_initiatives |-> Arr(<<>>), risks |-> Arr(<<>>),
          hypotheses |-> Arr(<<>>), confidence_level |-> Str])

\* BedrockService.generate_company_profile, from the reply of invoke_claude on
generate_company_profile(answered, text) ==
    IF ~answered THEN Raise("ClientError")
    ELSE LET r == parse_json_response(text)
         IN  IF r.ok /\ HasGet(r.val) THEN r ELSE Value(ProfileFallback)

\* BedrockService.generate_questions
generate_questions(answered, text) ==
    IF ~answered THEN Raise("ClientError")
    ELSE LET r == parse_json_response(text)
         IN  IF r.ok /\ r.val.t = "arr" THEN r ELSE Value(Arr(<<>>))

\* The fallback of generate_interviewer_brief
BriefFallback(company_profile, questions) ==
    Dict([executive_summary |-> Str, company_overview |-> company_profile,
          industry_context |-> Str, pre_call_hypotheses |-> Arr(<<>>),
          questions |-> questions,
          conversation_flow |-> Dict([opening |-> Str, core |-> Arr(<<>>), closing |-> Str]),
          key_facts |-> Arr(<<>>)])

\* BedrockService.generate_interviewer_brief
generate_interviewer_brief(company_profile, questions, answered, text) ==
    IF ~answered THEN Raise("ClientError")
    ELSE LET r == parse_json_response(text)
         IN  IF ~r.ok THEN Value(BriefFallback(company_profile, questions))
             ELSE IF HasLen(r.val) THEN r
             ELSE Raise("TypeError")

\* simplified_questions: id, question and topic of every question
SimplifiedQuestions(questions) ==
    Arr([i \in DOMAIN questions.items |-> Dict([id |-> Str, question |-> Str, topic |-> Str])])

\* The fallback of generate_interviewee_packet
PacketFallback(company_profile, questions) ==
    Dict([ai_findings |-> Dict([company_summary |-> Str, key_facts |-> Arr(<<>>),
                                topics_identified |-> Arr([i \in DOMAIN questions.items |-> Str])]),
          questions_menu |-> SimplifiedQuestions(questions),
          invitation_text |-> Str])

\* BedrockService.generate_interviewee_packet: q.get(...) on every question
\* comes before the call of invoke_claude
generate_interviewee_packet(company_profile, questions, answered, text) ==
    IF \E i \in DOMAIN questions.items : ~HasGet(questions.items[i]) THEN Raise("AttributeError")
    ELSE IF ~answered THEN Raise("ClientError")
    ELSE LET r == parse_json_response(text)
         IN  IF r.ok THEN r
             ELSE IF HasGet(company_profile)
                  THEN Value(PacketFallback(company_profile, questions))
                  ELSE Raise("AttributeError")

\* What invoke_claude may hand back: a text, or ClientError
Replies ==
    {[answered |-> TRUE, text |-> t] : t \in TextsUpTo(MaxReplyLen)}
        \cup {[answered |-> FALSE, text |-> <<>>]}

\* Profiles and question lists the earlier operations of the chain return
Profiles == {Obj(<<>>), ProfileFallback}
QuestionLists == {Arr(<<>>), Arr(<<Obj(<<>>)>>), Arr(<<Num>>)}

GenCall(op, reply, company_profile, questions) ==
    [pc |-> "called", op |-> op, answered |-> reply.answered, text |-> reply.text,
     profile |-> company_profile, questions |-> questions, out |-> Raise("none")]

\* One call of the service: _parse_json_response on a text, or one generate_*
\* operation on its inputs and the reply it will receive.
BedrockInit ==
    /\ gen \in {GenCall("parse_json_response", [answered |-> TRUE, text |-> t], None, None) :
                    t \in TextsUpTo(MaxTextLen)}
          \cup {GenCall(op, r, None, None) :
                    op \in {"generate_company_profile", "generate_questions"}, r \in Replies}
          \cup {GenCall(op, r, cp, q) :
                    op \in {"generate_interviewer_brief", "generate_interviewee_packet"},
                    r \in Replies, cp \in Profiles, q \in QuestionLists}
    /\ table = <<>>
    /\ blobs = <<>>
    /\ clock = 0
    /\ pc = [p \in Procs |-> "idle"]
    /\ req = [p \in Procs |-> NoReq]
    /\ loc = [p \in Procs |-> NoLoc]
    /\ resp = [p \in Procs |-> 0]
    /\ ret = [p \in Procs |-> NoSession]
    /\ calls = [p \in Procs |-> {}]
    /\ wrote = [p \in Procs |-> FALSE]
    /\ invocations = 0

\* The call runs to its return or its exception.
Finish(op, out) ==
    /\ gen.pc = "called"
    /\ gen.op = op
    /\ gen' = [gen EXCEPT !.pc = "done", !.out = out]
    /\ UNCHANGED <<table, blobs, clock, pc, req, loc, resp, ret, calls, wrote, invocations>>

parse_json_response_Call ==
    Finish("parse_json_response", parse_json_response(gen.text))

generate_company_profile_Call ==
    Finish("generate_company_profile", generate_company_profile(gen.answered, gen.text))

generate_questions_Call ==
    Finish("generate_questions", generate_questions(gen.answered, gen.text))

generate_interviewer_brief_Call ==
    Finish("generate_interviewer_brief",
           generate_interviewer_brief(gen.profile, gen.questions, gen.answered, gen.text))

generate_interviewee_packet_Call ==
    Finish("generate_interviewee_packet",
           generate_interviewee_packet(gen.profile, gen.questions, gen.answered, gen.text))

BedrockNext ==
    \/ parse_json_response_Call
    \/ generate_company_profile_Call
    \/ generate_questions_Call
    \/ generate_interviewer_brief_Call
    \/ generate_interviewee_packet_Call

BedrockSpec == BedrockInit /\ [][BedrockNext]_vars

(* -------------------------- comprehend_service ------------------------ *)
\* A text is a sequence of characters: a one-byte letter, a two-byte letter,
\* a blank and the newline.
Chars == {"a", "e2", " ", "nl"}

CharTexts(n) == UNION {[1..k -> Chars] : k \in 0..n}

\* len(c.encode("utf-8"))
CharBytes(c) == IF c = "e2" THEN 2 ELSE 1

\* len(text.encode("utf-8"))
RECURSIVE Bytes(_)
Bytes(text) == IF text = <<>> THEN 0 ELSE CharBytes(Head(text)) + Bytes(Tail(text))

\* text.split("\n")
RECURSIVE Split(_)
Split(text) ==
    LET i == Find(text, "nl")
    IN  IF i = 0 THEN <<text>>
        ELSE <<SubSeq(text, 1, i - 1)>> \o Split(SubSeq(text, i + 1, Len(text)))

\* "\n".join(parts)
RECURSIVE Join(_)
Join(parts) ==
    IF parts = <<>> THEN <<>>
    ELSE IF Len(parts) = 1 THEN parts[1]
    ELSE parts[1] \o <<"nl">> \o Join(Tail(parts))

\* text[:n]
Prefix(text, n) == SubSeq(text, 1, IF Len(text) < n THEN Len(text) ELSE n)

\* not text.strip()
Blank(text) == \A i \in DOMAIN text : text[i] \in {" ", "nl"}

\* The loop of _chunk_text over the paragraphs left, with the chunks made so
\* far and the chunk being filled.
RECURSIVE ChunkLoop(_, _, _, _)
ChunkLoop(paragraphs, chunks, current_chunk, max_bytes) ==
    IF paragraphs = <<>>
    THEN IF current_chunk # <<>> THEN Append(chunks, current_chunk) ELSE chunks
    ELSE LET paragraph == Head(paragraphs)
             test_chunk == IF current_chunk # <<>>
                           THEN current_chunk \o <<"nl">> \o paragraph
                           ELSE paragraph
         IN  IF Bytes(test_chunk) > max_bytes
             THEN ChunkLoop(Tail(paragraphs),
                            IF current_chunk # <<>> THEN Append(chunks, current_chunk)
                            ELSE chunks,
                            Prefix(paragraph, max_bytes), max_bytes)
             ELSE ChunkLoop(Tail(paragraphs), chunks, test_chunk, max_bytes)

\* ComprehendService._chunk_text
chunk_text(text, max_bytes) ==
    IF Bytes(text) <= max_bytes THEN <<text>>
    ELSE ChunkLoop(Split(text), <<>>, <<>>, max_bytes)

\* round(score, 4): the nearest multiple of 0.0001 (three units).
Round4(score) == 3 * ((score + 1) \div 3)

Scores == 0..MaxScore

\* What DetectEntities answers for one chunk. Comprehend's entity types hold
\* no colon, so the key f"{Type}:{Text}" is the pair of type and text.
EntityKeys == {<<"ORGANIZATION", "Acme">>, <<"ORGANIZATION", "acme">>, <<"PERSON", "Acme">>}

FoundEntities == {[Type |-> k[1], Text |-> k[2], Score |-> n] : k \in EntityKeys, n \in Scores}

\* What DetectKeyPhrases answers for one chunk.
PhraseTexts == {"Acme", "acme", "grid"}

FoundPhrases == {[Text |-> t, Score |-> n] : t \in PhraseTexts, n \in Scores}

ListsOf(S, n) == UNION {[1..k -> S] : k \in 0..n}

\* Mutant of Lower: the case is kept.
Lower_KeepsCase(t) == t

\* str.lower()
Lower(t) == IF t = "Acme" THEN "acme" ELSE t

\* A dict in insertion order: a sequence of [key, val]; d[key] = val keeps
\* the place of a key that is already there.
DictHas(d, key) == \E i \in DOMAIN d : d[i].key = key

DictGet(d, key) == d[CHOOSE i \in DOMAIN d : d[i].key = key].val

\* Mutant of DictSet: every assignment adds an entry.
DictSet_Appends(d, key, val) == Append(d, [key |-> key, val |-> val])

DictSet(d, key, val) ==
    IF DictHas(d, key)
    THEN [i \in DOMAIN d |-> IF d[i].key = key THEN [key |-> key, val |-> val] ELSE d[i]]
    ELSE Append(d, [key |-> key, val |-> val])

\* list(d.values())
DictValues(d) == [i \in DOMAIN d |-> d[i].val]

\* detect_entities: the loop over the entities of one response
RECURSIVE merge_entities(_, _)
merge_entities(all_entities, entities) ==
    IF entities = <<>> THEN all_entities
    ELSE LET entity == Head(entities)
             key == <<entity.Type, entity.Text>>
         IN  IF ~DictHas(all_entities, key) \/ entity.Score > DictGet(all_entities, key).score
             THEN merge_entities(DictSet(all_entities, key,
                                         [text |-> entity.Text, type |-> entity.Type,
                                          score |-> Round4(entity.Score)]),
                                 Tail(entities))
             ELSE merge_entities(all_entities, Tail(entities))

\* detect_key_phrases: the loop over the phrases of one response
RECURSIVE merge_phrases(_, _)
merge_phrases(all_phrases, phrases) ==
    IF phrases = <<>> THEN all_phrases
    ELSE LET phrase == Head(phrases)
             key == Lower(phrase.Text)
         IN  IF ~DictHas(all_phrases, key) \/ phrase.Score > DictGet(all_phrases, key).score
             THEN merge_phrases(DictSet(all_phrases, key,
                                        [text |-> phrase.Text, score |-> Round4(phrase.Score)]),
                                Tail(phrases))
             ELSE merge_phrases(all_phrases, Tail(phrases))

\* Place x behind the entries of a descending list whose score is not lower.
RECURSIVE InsertDesc(_, _)
InsertDesc(sorted, x) ==
    IF sorted = <<>> THEN <<x>>
    ELSE IF Head(sorted).score >= x.score THEN <<Head(sorted)>> \o InsertDesc(Tail(sorted), x)
    ELSE <<x>> \o sorted

\* sorted(values, key=lambda x: x["score"], reverse=True): stable
RECURSIVE SortedByScore(_)
SortedByScore(values) ==
    IF values = <<>> THEN <<>>
    ELSE InsertDesc(SortedByScore(SubSeq(values, 1, Len(values) - 1)), values[Len(values)])

\* What DetectSentiment answers.
FoundSentiments == {[Sentiment |-> "POSITIVE", Positive |-> n, Negative |-> MaxScore - n,
                     Neutral |-> 0, Mixed |-> 0] : n \in Scores}

\* detect_sentiment: the result built from the response
sentiment_result(response) ==
    [sentiment |-> response.Sentiment,
     scores |-> [positive |-> Round4(response.Positive), negative |-> Round4(response.Negative),
                 neutral |-> Round4(response.Neutral), mixed |-> Round4(response.Mixed)]]

NeutralResult == [sentiment |-> "NEUTRAL", scores |-> <<>>]

UnknownResult == [sentiment |-> "UNKNOWN", scores |-> <<>>, error |-> "ClientError"]

\* The texts given to the detectors: no chunk, one chunk, a blank chunk, a
\* blank chunk before a chunk, two chunks.
AnalyzedTexts == {<<>>, <<"a">>, <<" ">>, <<" ", "nl", "a", "a", "a">>,
                  <<"a", "a", "nl", "a", "a">>}

\* A call of the service: chunks is the list the loop runs over, i the chunks
\* done, sent the texts handed to Comprehend, answered its responses to the
\* calls that succeeded, failed the numbers of the calls that raised ClientError.
ServiceCall(op, text) ==
    [pc |-> "called", op |-> op, text |-> text, chunks |-> <<>>, i |-> 0, all |-> <<>>,
     sent |-> <<>>, answered |-> <<>>, failed |-> {}, out |-> Raise("none")]

ComprehendInit ==
    /\ gen \in {ServiceCall(op, t) : op \in {"_chunk_text", "detect_sentiment"},
                                      t \in CharTexts(MaxChars)}
              \cup {ServiceCall(op, t) : op \in {"detect_entities", "detect_key_phrases"},
                                         t \in AnalyzedTexts}
    /\ table = <<>>
    /\ blobs = <<>>
    /\ clock = 0
    /\ pc = [p \in Procs |-> "idle"]
    /\ req = [p \in Procs |-> NoReq]
    /\ loc = [p \in Procs |-> NoLoc]
    /\ resp = [p \in Procs |-> 0]
    /\ ret = [p \in Procs |-> NoSession]
    /\ calls = [p \in Procs |-> {}]
    /\ wrote = [p \in Procs |-> FALSE]
    /\ invocations = 0

Idle == UNCHANGED <<table, blobs, clock, pc, req, loc, resp, ret, calls, wrote, invocations>>

\* _chunk_text(text)
chunk_text_Call ==
    /\ gen.pc = "called" /\ gen.op = "_chunk_text"
    /\ gen' = [gen EXCEPT !.pc = "done", !.out = Value(chunk_text(gen.text, MaxBytes))]
    /\ Idle

\* chunks = self._chunk_text(text); all_entities = {} (all_phrases = {})
detect_Chunks ==
    /\ gen.pc = "called" /\ gen.op \in {"detect_entities", "detect_key_phrases"}
    /\ gen' = [gen EXCEPT !.pc = "loop", !.chunks = chunk_text(gen.text, MaxBytes)]
    /\ Idle

\* for chunk in chunks: if not chunk.strip(): continue
detect_SkipBlank ==
    /\ gen.pc = "loop" /\ gen.i < Len(gen.chunks)
    /\ Blank(gen.chunks[gen.i + 1])
    /\ gen' = [gen EXCEPT !.i = @ + 1]
    /\ Idle

\* Mutant of detect_entities_Chunk: a failed call ends the loop.
detect_entities_Chunk_Aborts ==
    /\ gen.pc = "loop" /\ gen.op = "detect_entities" /\ gen.i < Len(gen.chunks)
    /\ ~Blank(gen.chunks[gen.i + 1])
    /\ \/ \E entities \in ListsOf(FoundEntities, MaxFound) :
            gen' = [gen EXCEPT !.i = @ + 1,
                               !.sent = Append(@, gen.chunks[gen.i + 1]),
                               !.answered = Append(@, entities),
                               !.all = merge_entities(@, entities)]
       \/ gen' = [gen EXCEPT !.i = Len(gen.chunks),
                             !.sent = Append(@, gen.chunks[gen.i + 1]),
                             !.failed = @ \cup {Len(gen.sent) + 1}]
    /\ Idle

\* one chunk of detect_entities: the call, then the merge of its entities;
\* except ClientError: logged
detect_entities_Chunk ==
    /\ gen.pc = "loop" /\ gen.op = "detect_entities" /\ gen.i < Len(gen.chunks)
    /\ ~Blank(gen.chunks[gen.i + 1])
    /\ \/ \E entities \in ListsOf(FoundEntities, MaxFound) :
            gen' = [gen EXCEPT !.i = @ + 1,
                               !.sent = Append(@, gen.chunks[gen.i + 1]),
                               !.answered = Append(@, entities),
                               !.all = merge_entities(@, entities)]
       \/ gen' = [gen EXCEPT !.i = @ + 1,
                             !.sent = Append(@, gen.chunks[gen.i + 1]),
                             !.failed = @ \cup {Len(gen.sent) + 1}]
    /\ Idle

\* one chunk of detect_key_phrases
detect_key_phrases_Chunk ==
    /\ gen.pc = "loop" /\ gen.op = "detect_key_phrases" /\ gen.i < Len(gen.chunks)
    /\ ~Blank(gen.chunks[gen.i + 1])
    /\ \/ \E phrases \in ListsOf(FoundPhrases, MaxFound) :
            gen' = [gen EXCEPT !.i = @ + 1,
                               !.sent = Append(@, gen.chunks[gen.i + 1]),
                               !.answered = Append(@, phrases),
                               !.all = merge_phrases(@, phrases)]
       \/ gen' = [gen EXCEPT !.i = @ + 1,
                             !.sent = Append(@, gen.chunks[gen.i + 1]),
                             !.failed = @ \cup {Len(gen.sent) + 1}]
    /\ Idle

\* entities = sorted(all_entities.values(), ...); return entities
detect_Return ==
    /\ gen.pc = "loop" /\ gen.i = Len(gen.chunks)
    /\ gen' = [gen EXCEPT !.pc = "done", !.out = Value(SortedByScore(DictValues(gen.all)))]
    /\ Idle

\* chunk = self._chunk_text(text)[0] if text else ""; if not chunk.strip(): NEUTRAL
detect_sentiment_First ==
    /\ gen.pc = "called" /\ gen.op = "detect_sentiment"
    /\ LET chunks == IF gen.text # <<>> THEN chunk_text(gen.text, MaxBytes) ELSE <<<<>>>> IN
        IF chunks = <<>>
        THEN gen' = [gen EXCEPT !.pc = "done", !.out = Raise("IndexError")]
        ELSE IF Blank(chunks[1])
        THEN gen' = [gen EXCEPT !.pc = "done", !.chunks = chunks, !.out = Value(NeutralResult)]
        ELSE gen' = [gen EXCEPT !.pc = "loop", !.chunks = chunks]
    /\ Idle

\* Mutant of detect_sentiment_Call: a ClientError is raised to the caller.
detect_sentiment_Call_Raises ==
    /\ gen.pc = "loop" /\ gen.op = "detect_sentiment"
    /\ \/ \E response \in FoundSentiments :
            gen' = [gen EXCEPT !.pc = "done", !.i = 1,
                               !.sent = Append(@, gen.chunks[1]),
                               !.answered = Append(@, response),
                               !.out = Value(sentiment_result(response))]
       \/ gen' = [gen EXCEPT !.pc = "done", !.i = 1,
                             !.sent = Append(@, gen.chunks[1]),
                             !.failed = @ \cup {Len(gen.sent) + 1},
                             !.out = Raise("ClientError")]
    /\ Idle

\* response = self.client.detect_sentiment(Text=chunk, ...); except ClientError
detect_sentiment_Call ==
    /\ gen.pc = "loop" /\ gen.op = "detect_sentiment"
    /\ \/ \E response \in FoundSentiments :
            gen' = [gen EXCEPT !.pc = "done", !.i = 1,
                               !.sent = Append(@, gen.chunks[1]),
                               !.answered = Append(@, response),
                               !.out = Value(sentiment_result(response))]
       \/ gen' = [gen EXCEPT !.pc = "done", !.i = 1,
                             !.sent = Append(@, gen.chunks[1]),
                             !.failed = @ \cup {Len(gen.sent) + 1},
                             !.out = Value(UnknownResult)]
    /\ Idle

ComprehendNext ==
    \/ chunk_text_Call
    \/ detect_Chunks
    \/ detect_SkipBlank
    \/ detect_entities_Chunk
    \/ detect_key_phrases_Chunk
    \/ detect_Return
    \/ detect_sentiment_First
    \/ detect_sentiment_Call

ComprehendSpec == ComprehendInit /\ [][ComprehendNext]_vars

(* ---------------------------- scraper_service ------------------------- *)
\* A company name is a sequence of characters: a lowercase letter, that
\* letter in uppercase, another letter, a blank.
NameChars == {"g", "G", "x", " "}

Names == UNION {[1..k -> NameChars] : k \in 0..MaxNameLen}

\* str.lower() of a name or key
LowerName(name) == [i \in DOMAIN name |-> IF name[i] = "G" THEN "g" ELSE name[i]]

\* company_name.lower().replace(" ", "_")
normalized_name(company_name) ==
    [i \in DOMAIN company_name |->
        IF LowerName(company_name)[i] = " " THEN "_" ELSE LowerName(company_name)[i]]

\* a in b, for strings
In(a, b) == \E i \in 1..(Len(b) + 1) : i + Len(a) - 1 <= Len(b) /\ SubSeq(b, i, i + Len(a) - 1) = a

\* self.mock_data: the pairs of mock_companies.json in file order; empty when
\* the file is missing.
MockFiles == {<<>>,
              <<[key |-> <<"g", "_", "g">>, mock |-> "canned1"]>>,
              <<[key |-> <<"G", "x">>, mock |-> "canned1"],
                [key |-> <<"g", "_", "g">>, mock |-> "canned2"]>>}

\* if key.lower() in normalized_name or normalized_name in key.lower()
MockHit(key, company_name) ==
    \/ In(LowerName(key), normalized_name(company_name))
    \/ In(normalized_name(company_name), LowerName(key))

\* The first pair of mock_data that the loop accepts, 0 when there is none.
FirstHit(mock_data, company_name) ==
    IF \E i \in DOMAIN mock_data : MockHit(mock_data[i].key, company_name)
    THEN CHOOSE i \in DOMAIN mock_data :
            /\ MockHit(mock_data[i].key, company_name)
            /\ \A j \in 1..(i - 1) : ~MockHit(mock_data[j].key, company_name)
    ELSE 0

\* company_url: not given, or the address of a page of the company's site.
CompanyUrls == {"", "site/home"}

\* How one requests.get ends: a page, or one of the three exceptions
\* scrape_url catches.
FetchOutcomes == {"page", "Timeout", "HTTPError", "RequestException"}

\* ScraperService.scrape_url: the dict it returns
scrape_url(url, outcome) ==
    IF outcome = "page"
    THEN [url |-> url, success |-> TRUE, description |-> <<"description", url>>,
          content |-> "text", error |-> ""]
    ELSE [url |-> url, success |-> FALSE, description |-> <<>>, content |-> "",
          error |-> outcome]

\* f"{parsed.scheme}://{parsed.netloc}/about", ".../about-us"
about_urls == <<"site/about", "site/about-us">>

\* ScraperService._aggregate_scraped_data
aggregate_scraped_data(company_name, pages) ==
    [name |-> company_name,
     description |-> IF pages # <<>> THEN pages[1].description ELSE <<>>,
     combined_content |-> [i \in DOMAIN SelectSeq(pages, LAMBDA page : page.success) |->
                               SelectSeq(pages, LAMBDA page : page.success)[i].content],
     pages_scraped |-> Len(SelectSeq(pages, LAMBDA page : page.success))]

\* The dict scrape_company returns.
ScrapeResult(company_name, company_url, pages, summary, source) ==
    [company_name |-> company_name, company_url |-> company_url, pages |-> pages,
     summary |-> summary, source |-> source]

\* A call of scrape_company: fetches lists the requests made, each with its
\* address and how it ended.
ScrapeCall(company_name, company_url, mock_data) ==
    [pc |-> "called", op |-> "scrape_company", name |-> company_name, url |-> company_url,
     mock_data |-> mock_data, pages |-> <<>>, fetches |-> <<>>, out |-> Raise("none")]

ScraperInit ==
    /\ gen \in {ScrapeCall(n, u, m) : n \in Names, u \in CompanyUrls, m \in MockFiles}
    /\ table = <<>>
    /\ blobs = <<>>
    /\ clock = 0
    /\ pc = [p \in Procs |-> "idle"]
    /\ req = [p \in Procs |-> NoReq]
    /\ loc = [p \in Procs |-> NoLoc]
    /\ resp = [p \in Procs |-> 0]
    /\ ret = [p \in Procs |-> NoSession]
    /\ calls = [p \in Procs |-> {}]
    /\ wrote = [p \in Procs |-> FALSE]
    /\ invocations = 0

\* Mutant of scrape_company_Mock: a given company_url is scraped, the mock
\* data is for calls without one.
scrape_company_Mock_UrlFirst ==
    /\ gen.pc = "called" /\ gen.op = "scrape_company"
    /\ LET hit == FirstHit(gen.mock_data, gen.name) IN
        IF hit # 0 /\ gen.url = ""
        THEN gen' = [gen EXCEPT !.pc = "done",
                                !.out = Value(ScrapeResult(gen.name, gen.url, <<>>,
                                                           gen.mock_data[hit].mock, "mock_data"))]
        ELSE gen' = [gen EXCEPT !.pc = IF gen.url # "" THEN "first" ELSE "aggregate"]
    /\ Idle

\* the loop over self.mock_data.items(): return on the first hit
scrape_company_Mock ==
    /\ gen.pc = "called" /\ gen.op = "scrape_company"
    /\ LET hit == FirstHit(gen.mock_data, gen.name) IN
        IF hit # 0
        THEN gen' = [gen EXCEPT !.pc = "done",
                                !.out = Value(ScrapeResult(gen.name, gen.url, <<>>,
                                                           gen.mock_data[hit].mock, "mock_data"))]
        ELSE gen' = [gen EXCEPT !.pc = IF gen.url # "" THEN "first" ELSE "aggregate"]
    /\ Idle

\* Mutant of scrape_company_First: when the given page cannot be fetched the
\* about pages are not tried.
scrape_company_First_GivesUp ==
    /\ gen.pc = "first"
    /\ \E outcome \in FetchOutcomes :
          gen' = [gen EXCEPT !.pc = IF outcome = "page" THEN "about" ELSE "aggregate",
                             !.fetches = Append(@, [url |-> gen.url, outcome |-> outcome]),
                             !.pages = Append(@, scrape_url(gen.url, outcome))]
    /\ Idle

\* page_data = self.scrape_url(company_url); pages.append(page_data)
scrape_company_First ==
    /\ gen.pc = "first"
    /\ \E outcome \in FetchOutcomes :
          gen' = [gen EXCEPT !.pc = "about",
                             !.fetches = Append(@, [url |-> gen.url, outcome |-> outcome]),
                             !.pages = Append(@, scrape_url(gen.url, outcome))]
    /\ Idle

\* for about_url in about_urls[:2]: about_data = self.scrape_url(about_url);
\* if about_data.get("success"): pages.append(about_data)
scrape_company_About ==
    /\ gen.pc = "about"
    /\ LET about_url == about_urls[Len(gen.fetches)] IN
        \E outcome \in FetchOutcomes :
          gen' = [gen EXCEPT !.pc = IF Len(gen.fetches) = Len(about_urls) THEN "aggregate"
                                    ELSE "about",
                             !.fetches = Append(@, [url |-> about_url, outcome |-> outcome]),
                             !.pages = IF outcome = "page"
                                       THEN Append(@, scrape_url(about_url, outcome))
                                       ELSE @]
    /\ Idle

\* summary = self._aggregate_scraped_data(company_name, pages); return result
scrape_company_Aggregate ==
    /\ gen.pc = "aggregate"
    /\ gen' = [gen EXCEPT !.pc = "done",
                           !.out = Value(ScrapeResult(gen.name, gen.url, gen.pages,
                                                      aggregate_scraped_data(gen.name, gen.pages),
                                                      "live_scrape"))]
    /\ Idle

ScraperNext ==
    \/ scrape_company_Mock
    \/ scrape_company_First
    \/ scrape_company_About
    \/ scrape_company_Aggregate

ScraperSpec == ScraperInit /\ [][ScraperNext]_vars

(* ------------------------------ properties ---------------------------- *)
\* The composite key an invocation's update_session addresses.
UpdateKey(p) == Key(req[p].sessionId, loc[p].createdAt)

\* The step in which invocation p's update_item is applied.
Updates(p) == pc[p] = "update" /\ pc'[p] = "updated"

\* The fields each stage is said to own.
OwnedFields(handler) ==
    CASE handler = "scrape_company" -> {"scrapedData", "status"}
      [] handler = "parse_document" -> {"parsedDocuments"}
      [] handler = "analyze_company" -> {"analysisResults", "status"}
      [] handler = "generate_brief" -> {"interviewerBrief", "intervieweePacket", "status"}
      [] handler = "submit_feedback" -> {"feedback", "status"}
      [] OTHER -> {}

Stages == {"scrape_company", "parse_document", "analyze_company", "generate_brief",
           "submit_feedback"}

\* C1: update_session on an existing record sets exactly the keys of the field
\* map plus updatedAt, keeps every other field and every other record, and
\* returns the full record after the merge; with the empty map only updatedAt
\* is set.
C1_UpdateMergesFields ==
    [][\A p \in Procs :
          (Updates(p) /\ UpdateKey(p) \in DOMAIN table) =>
              LET old == table[UpdateKey(p)]
                  new == table'[UpdateKey(p)]
                  named == (DOMAIN loc[p].updates) \ {"updatedAt"}
              IN  /\ DOMAIN table' = DOMAIN table
                  /\ \A k \in (DOMAIN table) \ {UpdateKey(p)} : table'[k] = table[k]
                  /\ DOMAIN new = (DOMAIN old) \cup named \cup {"updatedAt"}
                  /\ \A f \in named : new[f] = loc[p].updates[f]
                  /\ new.updatedAt = loc[p].updates.updatedAt
                  /\ \A f \in (DOMAIN old) \ (named \cup {"updatedAt"}) : new[f] = old[f]
                  /\ ret'[p] = new]_vars

\* C1 witness: update_session has returned the merged record of a session made
\* by create_session, called with a two-field map.
C1_Witness ==
    \E p \in Procs :
        /\ pc[p] = "updated"
        /\ req[p].handler = "update_session"
        /\ DOMAIN loc[p].updates = {"scrapedData", "status", "updatedAt"}
        /\ DOMAIN ret[p] = ItemFields
        /\ ret[p].status = "SCRAPING_COMPLETE"
        /\ ret[p].companyName = "Acme"

\* C2: no step moves the status of a record to an earlier value of
\* CREATED < SCRAPING_COMPLETE < ANALYSIS_COMPLETE < READY < FEEDBACK_RECEIVED.
C2_StatusOnlyAdvances ==
    [][\A k \in DOMAIN table :
          k \in DOMAIN table' => Rank(table'[k].status) >= Rank(table[k].status)]_vars

\* C3: once the status of a record is FEEDBACK_RECEIVED, no step changes it.
C3_FeedbackReceivedIsTerminal ==
    [][\A k \in DOMAIN table :
          table[k].status = "FEEDBACK_RECEIVED" =>
              k \in DOMAIN table' /\ table'[k].status = "FEEDBACK_RECEIVED"]_vars

\* A ParseDocument invocation that returned success after merging its entry.
ParseSucceeded(p) ==
    /\ pc[p] = "returned"
    /\ req[p].handler = "parse_document"
    /\ resp[p] = 200
    /\ wrote[p]

Occurrences(seq, e) == Cardinality({i \in DOMAIN seq : seq[i] = e})

\* C4 as claimed: whenever ParseDocument invocations on one session have
\* returned success after merging, parsedDocuments holds an entry for each.
C4_NoEntryLost ==
    \A p \in Procs :
        ParseSucceeded(p) =>
            Occurrences(get_session(table, req[p].sessionId).parsedDocuments, ParsedEntry(p))
                >= Cardinality({q \in Procs : /\ ParseSucceeded(q)
                                              /\ req[q].sessionId = req[p].sessionId
                                              /\ ParsedEntry(q) = ParsedEntry(p)})

\* C4 as amended: the update of a ParseDocument invocation sets parsedDocuments
\* to the list its get_session read with its own entry appended, whatever was
\* merged in between (last write wins).
C4_LastWriteWins ==
    [][\A p \in Procs :
          (Updates(p) /\ req[p].handler = "parse_document") =>
              table'[UpdateKey(p)].parsedDocuments
                  = Append(loc[p].session.parsedDocuments, ParsedEntry(p))]_vars

\* C4 witness: a ParseDocument update has been applied over an entry that
\* another ParseDocument merged after this invocation's get_session.
C4_Witness ==
    \E p, q \in Procs :
        /\ p # q
        /\ pc[p] = "updated" /\ req[p].handler = "parse_document"
        /\ pc[q] \in {"updated", "returned"} /\ req[q].handler = "parse_document" /\ wrote[q]
        /\ req[q].sessionId = req[p].sessionId
        /\ loc[p].session.parsedDocuments = <<>>
        /\ table[UpdateKey(p)].parsedDocuments = <<ParsedEntry(p)>>
        /\ ParsedEntry(q) # ParsedEntry(p)

\* C5: when an invocation's update is applied, the fields owned by another
\* invocation on the same session that has already merged, and whose owned
\* fields are disjoint from its own, keep their values, and its own fields
\* take the values it wrote.
C5_DisjointUpdatesCompose ==
    [][\A p, q \in Procs :
          ( /\ p # q
            /\ Updates(p)
            /\ req[p].handler \in Stages /\ req[q].handler \in Stages
            /\ req[q].sessionId = req[p].sessionId
            /\ wrote[q]
            /\ OwnedFields(req[p].handler) \cap OwnedFields(req[q].handler) = {} ) =>
              /\ \A f \in OwnedFields(req[q].handler) :
                    /\ f \in DOMAIN table'[UpdateKey(p)]
                    /\ table'[UpdateKey(p)][f] = table[UpdateKey(p)][f]
              /\ \A f \in OwnedFields(req[p].handler) :
                    table'[UpdateKey(p)][f] = loc[p].updates[f]]_vars

\* C5 witness: AnalyzeCompany's update has been applied after a ParseDocument
\* merged an entry that AnalyzeCompany's get_session had not seen, and the
\* record holds both.
C5_Witness ==
    \E p, q \in Procs :
        /\ pc[p] = "updated" /\ req[p].handler = "analyze_company"
        /\ pc[q] \in {"updated", "returned"} /\ req[q].handler = "parse_document" /\ wrote[q]
        /\ req[q].sessionId = req[p].sessionId
        /\ loc[p].session.parsedDocuments = <<>>
        /\ table[UpdateKey(p)].parsedDocuments = <<ParsedEntry(q)>>
        /\ table[UpdateKey(p)].analysisResults = loc[p].updates.analysisResults
        /\ table[UpdateKey(p)].status = "ANALYSIS_COMPLETE"

\* C6: every change of a record is the update of one stage invocation and
\* touches only the fields that stage owns and updatedAt; stages neither add
\* nor remove records.
C6_StagesWriteOwnFields ==
    [][\A k \in DOMAIN table :
          /\ k \in DOMAIN table'
          /\ table'[k] # table[k] =>
                \E p \in Procs :
                    /\ Updates(p)
                    /\ UpdateKey(p) = k
                    /\ req[p].handler \in Stages
                    /\ ChangedFields(table[k], table'[k])
                          \subseteq OwnedFields(req[p].handler) \cup {"updatedAt"}]_vars

\* C6 witness: AnalyzeCompany has merged into a session that was never scraped.
C6_Witness ==
    \E p \in Procs :
        /\ pc[p] = "updated" /\ req[p].handler = "analyze_company"
        /\ table[UpdateKey(p)].scrapedData = EmptyDict
        /\ table[UpdateKey(p)].status = "ANALYSIS_COMPLETE"
        /\ table[UpdateKey(p)].analysisResults # EmptyDict

\* C7: no step decreases the updatedAt of a record.
C7_UpdatedAtNeverDecreases ==
    [][\A k \in DOMAIN table :
          k \in DOMAIN table' => table'[k].updatedAt >= table[k].updatedAt]_vars

\* C8: update_session on a composite key that is not in the table fails and
\* leaves the table unchanged.
C8_UpdateOfMissingKeyFails ==
    [][\A p \in Procs :
          (pc[p] = "update" /\ pc'[p] # "update" /\ UpdateKey(p) \notin DOMAIN table) =>
              table' = table /\ pc'[p] # "updated"]_vars

\* C9: an invocation of a stage that returns a 4xx/5xx response has not
\* changed the table.
C9_FailureLeavesRecord ==
    \A p \in Procs :
        (pc[p] = "returned" /\ req[p].handler \in Stages /\ resp[p] >= 400) => ~wrote[p]

\* A request that passes every input check of its handler.
ValidRequest(r) ==
    /\ r.sessionId # NoId
    /\ r.handler = "scrape_company" => r.companyName # ""
    /\ r.handler = "parse_document" => r.filename # "" /\ r.source # "none"
    /\ r.handler = "analyze_company" => r.text # ""

\* C10: a valid ScrapeCompany, ParseDocument, AnalyzeCompany or GenerateBrief
\* request for a sessionId without record makes no external call and returns 404.
C10_MissingSessionShortCircuits ==
    \A p \in Procs :
        ( /\ req[p].handler \in {"scrape_company", "parse_document", "analyze_company",
                                 "generate_brief"}
          /\ ValidRequest(req[p])
          /\ get_session(table, req[p].sessionId) = NoSession ) =>
            /\ calls[p] = {}
            /\ pc[p] = "returned" => resp[p] = 404

\* C11: SubmitFeedback for a sessionId that has no record answers 404 at its
\* lookup (500 when the query itself raises), goes no further, and leaves the
\* table as it was: no record is created or updated.
C11_FeedbackOnMissingSession ==
    [][\A p \in Procs :
          ( /\ pc[p] = "feedback_get" /\ pc'[p] # "feedback_get"
            /\ get_session(table, req[p].sessionId) = NoSession ) =>
              /\ pc'[p] = "returned"
              /\ resp'[p] \in {404, 500}
              /\ table' = table
              /\ ~wrote'[p]]_vars

\* C11 witness: SubmitFeedback has returned 404 for a sessionId without record.
C11_Witness ==
    \E p \in Procs :
        /\ pc[p] = "returned" /\ req[p].handler = "submit_feedback"
        /\ req[p].sessionId # NoId
        /\ get_session(table, req[p].sessionId) = NoSession
        /\ resp[p] = 404
        /\ ~wrote[p]
        /\ table = <<>>

\* A request that lacks an input its handler requires.
MissingInput(r) ==
    CASE r.handler \in {"create_session", "start_pipeline"} -> r.companyName = ""
      [] r.handler = "scrape_company" -> r.sessionId = NoId \/ r.companyName = ""
      [] r.handler = "parse_document" ->
            r.sessionId = NoId \/ r.filename = "" \/ r.source = "none"
      [] r.handler \in {"analyze_company", "generate_brief"} -> r.sessionId = NoId
      [] OTHER -> FALSE

GenerateOps == {"generate_company_profile", "generate_questions",
                "generate_interviewer_brief", "generate_interviewee_packet"}

\* The questions handed to the operation are objects, as the schema has them.
QuestionsAreObjects ==
    gen.questions.t = "arr" =>
        \A i \in DOMAIN gen.questions.items : HasGet(gen.questions.items[i])

\* C14: whatever text the backend answers with, each of the four generation
\* operations returns a value and raises nothing.
C14_MalformedReplyNeverRaises ==
    ( /\ gen.pc = "done" /\ gen.op \in GenerateOps
      /\ gen.answered /\ QuestionsAreObjects ) => gen.out.ok

ProfileKeys == {"name", "industry", "region", "stage", "description", "business_model",
                "key_people", "competitors", "key_initiatives", "risks", "hypotheses",
                "confidence_level"}

BriefKeys == {"executive_summary", "company_overview", "industry_context",
              "pre_call_hypotheses", "questions", "conversation_flow", "key_facts"}

\* v is a dict literal with at least these keys.
HasFields(v, keys) == v.t = "dict" /\ keys \subseteq DOMAIN v.fields

\* The schema shape the fallback of each operation is said to have.
WellFormedFallback(op, v) ==
    CASE op = "generate_company_profile" ->
            /\ HasFields(v, ProfileKeys)
            /\ HasFields(v.fields.business_model, {"type", "revenue_streams"})
      [] op = "generate_interviewer_brief" ->
            /\ HasFields(v, BriefKeys)
            /\ HasFields(v.fields.conversation_flow, {"opening", "core", "closing"})
      [] op = "generate_interviewee_packet" ->
            /\ HasFields(v, {"ai_findings", "questions_menu", "invitation_text"})
            /\ HasFields(v.fields.ai_findings,
                         {"company_summary", "key_facts", "topics_identified"})
      [] OTHER -> v.t = "arr"

\* The operation got its reply and _parse_json_response raised on it.
ParsingFailed ==
    /\ gen.pc = "done" /\ gen.op \in GenerateOps /\ gen.answered
    /\ ~parse_json_response(gen.text).ok
    /\ QuestionsAreObjects

\* C15: when parsing of the reply fails, the operation returns its fallback and
\* the fallback has every key of the schema, nested keys included.
C15_FallbackHasEveryKey ==
    ParsingFailed => gen.out.ok /\ WellFormedFallback(gen.op, gen.out.val)

\* Prose around an embedded value: words only.
IsProse(t) == \A i \in DOMAIN t : t[i] = "w"

\* The text is the body as plain JSON, in a fenced block with or without the
\* json tag, or inside prose.
Presents(before, after) ==
    \/ before = <<>> /\ after = <<>>
    \/ before = <<"fence">> /\ after = <<"fence">>
    \/ before = <<"fence", "json">> /\ after = <<"fence">>
    \/ IsProse(before) /\ IsProse(after)

\* C16: a text that presents a JSON object or array v plainly, fenced or in
\* prose is parsed to v.
C16_SameValueInEveryPresentation ==
    (gen.pc = "done" /\ gen.op = "parse_json_response") =>
        \A i \in DOMAIN gen.text : \A j \in i..Len(gen.text) :
            LET body == json_loads(SubSeq(gen.text, i, j))
            IN  ( /\ body.ok
                  /\ body.val.t \in {"obj", "arr"}
                  /\ Presents(SubSeq(gen.text, 1, i - 1), SubSeq(gen.text, j + 1, Len(gen.text))) )
                    => gen.out = body

\* The three attempts on a text, as outcomes of json.loads.
WholeAttempt(t) == json_loads(t)
FencedAttempt(t) == IF FenceMatches(t) THEN json_loads(FenceGroup(t)) ELSE Raise("JSONDecodeError")
SpanAttempts(t) == {r \in {SpanParse(t, "{", "}"), SpanParse(t, "[", "]")} : r.ok}

PipelineStatus == table[CHOOSE k \in DOMAIN table : TRUE].status

\* C13: in the run CreateSession, ScrapeCompany, AnalyzeCompany without text,
\* GenerateBrief, with every backend answering, the status is CREATED, then
\* SCRAPING_COMPLETE, ANALYSIS_COMPLETE and READY, each set by its stage and
\* by no other; every stage returns success, and the brief_sections that
\* GenerateBrief returns contain executive_summary.
C13_PipelineStatuses ==
    /\ (\A q \in Procs : pc[q] = "idle") => PipelineStatus = StatusOrder[invocations + 1]
    /\ \A p \in Procs :
         pc[p] # "idle" =>
            /\ pc[p] \in {"updated", "returned"} => PipelineStatus = StatusOrder[invocations + 1]
            /\ pc[p] \notin {"updated", "returned"} => PipelineStatus = StatusOrder[invocations]
            /\ pc[p] = "returned" => resp[p] = 200
            /\ (pc[p] = "updated" /\ req[p].handler = "generate_brief") =>
                    /\ AfterUpdate(p) = 200
                    /\ loc[p].updates.status = "READY"
                    /\ "executive_summary" \in BriefSections(loc[p].updates.interviewerBrief)

\* C18: GenerateBrief leaves its generation step either with a brief and a
\* packet from four answered calls, or, when a call failed, with a 500 and
\* nothing written: no blob, no change of the table.
C18_BackendFailureWritesNothing ==
    [][\A p \in Procs :
          (pc[p] = "generate_ai" /\ pc'[p] # "generate_ai") =>
              /\ blobs' = blobs
              /\ table' = table
              /\ \/ /\ pc'[p] = "generate_upload_brief"
                    /\ loc'[p].updates.interviewerBrief \in Briefs
                    /\ loc'[p].updates.intervieweePacket \in Packets
                 \/ /\ pc'[p] = "returned"
                    /\ resp'[p] = 500
                    /\ ~wrote'[p]
                    /\ "blob" \notin calls'[p]]_vars

\* C18 witness: GenerateBrief on an existing session has returned 500 after a
\* failed generation call; no brief or packet blob exists and the status is
\* still CREATED.
C18_Witness ==
    \E p \in Procs :
        /\ pc[p] = "returned" /\ req[p].handler = "generate_brief"
        /\ resp[p] = 500 /\ "gen" \in calls[p] /\ ~wrote[p]
        /\ get_session(table, req[p].sessionId) # NoSession
        /\ get_session(table, req[p].sessionId).status = "CREATED"
        /\ <<"briefs", req[p].sessionId>> \notin DOMAIN blobs
        /\ <<"packets", req[p].sessionId>> \notin DOMAIN blobs

\* A ParseDocument invocation for a file whose extension has no extractor.
Unsupported(p) ==
    /\ req[p].handler = "parse_document"
    /\ Extension(req[p].filename) \notin {"docx", "pdf"}

\* C19: for an unsupported file the extraction step does not fail; the update
\* appends one entry for the file with method "unsupported" and text_length 0
\* to the list read, and the handler then returns 200.
C19_UnsupportedFileIsRecorded ==
    [][\A p \in Procs :
          Unsupported(p) =>
              /\ (pc[p] = "parse_extract" /\ pc'[p] # "parse_extract") => pc'[p] = "parse_get"
              /\ Updates(p) =>
                    LET docs == table'[UpdateKey(p)].parsedDocuments IN
                    /\ Len(docs) = Len(loc[p].session.parsedDocuments) + 1
                    /\ docs[Len(docs)].filename = req[p].filename
                    /\ docs[Len(docs)].method = "unsupported"
                    /\ docs[Len(docs)].text_length = 0
              /\ (pc[p] = "updated" /\ pc'[p] # "updated") =>
                    pc'[p] = "returned" /\ resp'[p] = 200]_vars

\* C19 witness: ParseDocument of n.xyz has returned 200 and the session holds
\* its entry.
C19_Witness ==
    \E p \in Procs :
        /\ pc[p] = "returned" /\ Unsupported(p) /\ resp[p] = 200 /\ wrote[p]
        /\ get_session(table, req[p].sessionId).parsedDocuments
              = <<[filename |-> "n.xyz", method |-> "unsupported", text_length |-> 0,
                   s3_key |-> <<"uploads", req[p].sessionId, "n.xyz">>]>>

\* C20: extraction is entered only from the upload step, with the bytes
\* stored under uploads/{sessionId}/{filename}, and the blob is there when
\* extraction ends, failed or not.
C20_BlobStoredBeforeExtraction ==
    [][\A p \in Procs :
          /\ (pc[p] # "parse_extract" /\ pc'[p] = "parse_extract") =>
                /\ pc[p] = "parse_upload"
                /\ UploadKey(p) \in DOMAIN blobs'
                /\ blobs'[UploadKey(p)] = "bytes"
          /\ (pc[p] = "parse_extract" /\ pc'[p] # "parse_extract") =>
                /\ UploadKey(p) \in DOMAIN blobs
                /\ UploadKey(p) \in DOMAIN blobs']_vars

\* C20 witness: ParseDocument of a PDF given as fileContent has failed in
\* extraction with nothing recorded in the table, and the uploaded blob exists.
C20_Witness ==
    \E p \in Procs :
        /\ pc[p] = "returned" /\ req[p].handler = "parse_document"
        /\ req[p].source = "fileContent" /\ req[p].filename = "b.pdf"
        /\ resp[p] = 500 /\ "ocr" \in calls[p]
        /\ table = <<>>
        /\ UploadKey(p) \in DOMAIN blobs

\* C21: when invocations do not overlap, parsedDocuments only grows at its
\* end: the update of a ParseDocument invocation stores the list the record
\* held with exactly one entry for its file appended, also when the list
\* already holds an entry for that file, and every other step of every stage
\* leaves the list of every record as it is.
C21_ParsedDocumentsAppendOnly ==
    [][\A k \in DOMAIN table :
          /\ k \in DOMAIN table'
          /\ IF \E p \in Procs : /\ Updates(p) /\ req[p].handler = "parse_document"
                                 /\ UpdateKey(p) = k
             THEN \E p \in Procs :
                    /\ Updates(p) /\ req[p].handler = "parse_document" /\ UpdateKey(p) = k
                    /\ table'[k].parsedDocuments
                          = Append(table[k].parsedDocuments, ParsedEntry(p))
             ELSE table'[k].parsedDocuments = table[k].parsedDocuments]_vars

\* C21 witness: ParseDocument has succeeded twice for the same file, and the
\* session holds two entries for it.
C21_Witness ==
    \E p \in Procs :
        /\ ParseSucceeded(p)
        /\ get_session(table, req[p].sessionId).parsedDocuments
              = <<ParsedEntry(p), ParsedEntry(p)>>

\* The record without its timestamps updatedAt and feedback.submittedAt.
Timeless(item) ==
    [f \in DOMAIN item \ {"updatedAt"} |->
        IF f = "feedback" /\ DOMAIN item[f] # {}
        THEN [item[f] EXCEPT !.submittedAt = 0]
        ELSE item[f]]

\* The stages the claim names.
RerunStages == {"scrape_company", "analyze_company", "generate_brief", "submit_feedback"}

\* The record is as an earlier run of p's stage with p's inputs and p's
\* backend responses left it.
LeftByEarlierRun(p, item) ==
    CASE req[p].handler = "scrape_company" ->
            item.scrapedData = loc[p].data /\ item.status = "SCRAPING_COMPLETE"
      [] req[p].handler = "analyze_company" ->
            item.analysisResults = loc[p].data /\ item.status = "ANALYSIS_COMPLETE"
      [] req[p].handler = "generate_brief" ->
            /\ item.interviewerBrief = loc[p].updates.interviewerBrief
            /\ item.intervieweePacket = loc[p].updates.intervieweePacket
            /\ item.status = "READY"
      [] req[p].handler = "submit_feedback" ->
            /\ DOMAIN item.feedback # {}
            /\ item.feedback.corrections = req[p].corrections
            /\ item.feedback.selectedQuestions = "list"
            /\ item.feedback.notes = ""
            /\ item.status = "FEEDBACK_RECEIVED"
      [] OTHER -> FALSE

\* C22: when invocations do not overlap and a stage is run again with the
\* inputs and backend responses of its earlier run, its update leaves the
\* record as the earlier run left it, except for updatedAt and
\* feedback.submittedAt, and leaves every other record alone.
C22_RerunOverwrites ==
    [][\A p \in Procs :
          (/\ Updates(p)
           /\ req[p].handler \in RerunStages
           /\ UpdateKey(p) \in DOMAIN table
           /\ LeftByEarlierRun(p, table[UpdateKey(p)])) =>
              /\ DOMAIN table' = DOMAIN table
              /\ \A k \in DOMAIN table : Timeless(table'[k]) = Timeless(table[k])]_vars

\* C22 witness: SubmitFeedback has returned success, has been run again
\* with the same request, and the second update is applied: the record
\* differs from the one the second run read in its timestamps only.
C22_Witness ==
    \E p, q \in Procs :
        /\ p # q
        /\ pc[q] = "returned" /\ resp[q] = 200 /\ wrote[q]
        /\ pc[p] = "updated" /\ req[p] = req[q]
        /\ req[p].handler = "submit_feedback"
        /\ LeftByEarlierRun(p, loc[p].session)
        /\ ret[p] # loc[p].session
        /\ Timeless(ret[p]) = Timeless(loc[p].session)

\* A finished call of this operation of the Comprehend service.
Done(op) == gen.pc = "done" /\ gen.op = op

\* Everything Comprehend answered during the call.
Observed == UNION {{gen.answered[i][j] : j \in DOMAIN gen.answered[i]} : i \in DOMAIN gen.answered}

MaxOf(S) == CHOOSE n \in S : \A m \in S : m <= n

\* The (type, text) keys Comprehend answered, and the scores it gave a key.
ObservedEntityKeys == {<<e.Type, e.Text>> : e \in Observed}

EntityScores(key) == {e.Score : e \in {x \in Observed : <<x.Type, x.Text>> = key}}

EntriesOf(key) == {i \in DOMAIN gen.out.val : <<gen.out.val[i].type, gen.out.val[i].text>> = key}

\* C23 as claimed: detect_entities returns exactly one entry for every
\* (type, text) key among the entities Comprehend answered over all chunks,
\* none for any other key, and the entry carries the highest score answered
\* for its key.
C23_OneEntryWithMaxScore ==
    Done("detect_entities") =>
        /\ gen.out.ok
        /\ Len(gen.out.val) = Cardinality(ObservedEntityKeys)
        /\ \A key \in ObservedEntityKeys :
              /\ Cardinality(EntriesOf(key)) = 1
              /\ \A i \in EntriesOf(key) : gen.out.val[i].score = MaxOf(EntityScores(key))

\* C23 as amended: the entry carries the highest score answered for its key
\* rounded to four decimal places.
C23_OneEntryWithRoundedMaxScore ==
    Done("detect_entities") =>
        /\ gen.out.ok
        /\ Len(gen.out.val) = Cardinality(ObservedEntityKeys)
        /\ \A key \in ObservedEntityKeys :
              /\ Cardinality(EntriesOf(key)) = 1
              /\ \A i \in EntriesOf(key) :
                    gen.out.val[i].score = Round4(MaxOf(EntityScores(key)))

\* C23 witness: two chunks answered the same entity with different scores,
\* the second one higher, next to an entity of the same text in another case;
\* both keys have one entry.
C23_Witness ==
    /\ Done("detect_entities")
    /\ Len(gen.answered) = 2
    /\ gen.answered[1] = <<[Type |-> "ORGANIZATION", Text |-> "Acme", Score |-> 1],
                            [Type |-> "ORGANIZATION", Text |-> "acme", Score |-> 0]>>
    /\ gen.answered[2] = <<[Type |-> "ORGANIZATION", Text |-> "Acme", Score |-> 2]>>
    /\ gen.out = Value(<<[text |-> "Acme", type |-> "ORGANIZATION", score |-> 3],
                          [text |-> "acme", type |-> "ORGANIZATION", score |-> 0]>>)

\* The phrase texts, grouped as spellings of one phrase in different case.
Spellings == {{"Acme", "acme"}, {"grid"}}

\* The phrases Comprehend answered, and the scores it gave a phrase.
ObservedPhraseKeys == {g \in Spellings : \E x \in Observed : x.Text \in g}

PhraseScores(key) == {x.Score : x \in {y \in Observed : y.Text \in key}}

PhrasesOf(key) == {i \in DOMAIN gen.out.val : gen.out.val[i].text \in key}

\* The list is in descending order of score.
Descending(list) == \A i, j \in DOMAIN list : i < j => list[i].score >= list[j].score

\* C24 as claimed: detect_key_phrases returns exactly one entry for the
\* phrases that differ in letter case only, carrying the highest score answered
\* among them, and the lists of detect_entities and detect_key_phrases are in
\* descending order of score.
C24_PhrasesMergedAndSorted ==
    /\ Done("detect_key_phrases") =>
          /\ gen.out.ok
          /\ Len(gen.out.val) = Cardinality(ObservedPhraseKeys)
          /\ \A key \in ObservedPhraseKeys :
                /\ Cardinality(PhrasesOf(key)) = 1
                /\ \A i \in PhrasesOf(key) : gen.out.val[i].score = MaxOf(PhraseScores(key))
          /\ Descending(gen.out.val)
    /\ Done("detect_entities") => gen.out.ok /\ Descending(gen.out.val)

\* C24 as amended: the entry carries the highest score answered among them
\* rounded to four decimal places.
C24_PhrasesMergedRoundedAndSorted ==
    /\ Done("detect_key_phrases") =>
          /\ gen.out.ok
          /\ Len(gen.out.val) = Cardinality(ObservedPhraseKeys)
          /\ \A key \in ObservedPhraseKeys :
                /\ Cardinality(PhrasesOf(key)) = 1
                /\ \A i \in PhrasesOf(key) :
                      gen.out.val[i].score = Round4(MaxOf(PhraseScores(key)))
          /\ Descending(gen.out.val)
    /\ Done("detect_entities") => gen.out.ok /\ Descending(gen.out.val)

\* C24 witness: "grid" was answered before "Acme" and "acme"; the result has
\* one entry for the two spellings, with the higher score, placed first.
C24_Witness ==
    /\ Done("detect_key_phrases")
    /\ gen.answered = <<<<[Text |-> "grid", Score |-> 1], [Text |-> "Acme", Score |-> 2]>>,
                         <<[Text |-> "acme", Score |-> 3]>>>>
    /\ Len(gen.out.val) = 2
    /\ gen.out.val[1] = [text |-> "Acme", score |-> 3]
    /\ gen.out.val[2] = [text |-> "grid", score |-> 0]

\* C25: every chunk _chunk_text returns has an encoded size of at most
\* max_bytes, for every text.
C25_ChunksWithinByteLimit ==
    Done("_chunk_text") => \A i \in DOMAIN gen.out.val : Bytes(gen.out.val[i]) <= MaxBytes

\* The non-empty lines of a text, in order.
NonEmptyLines(text) == SelectSeq(Split(text), LAMBDA line : line # <<>>)

\* C26: a text within the threshold comes back as one chunk equal to it; for
\* any other text the chunks joined by newlines have the non-empty lines of
\* the text, all of them and in the same order.
C26_ChunksKeepLines ==
    Done("_chunk_text") =>
        IF Bytes(gen.text) <= MaxBytes
        THEN gen.out.val = <<gen.text>>
        ELSE NonEmptyLines(Join(gen.out.val)) = NonEmptyLines(gen.text)

\* The chunks of the text that are not blank, in order.
NonBlankChunks(text) == SelectSeq(chunk_text(text, MaxBytes), LAMBDA chunk : ~Blank(chunk))

\* The merge of these responses, from the empty dict.
RECURSIVE MergedEntities(_)
MergedEntities(responses) ==
    IF responses = <<>> THEN <<>>
    ELSE merge_entities(MergedEntities(SubSeq(responses, 1, Len(responses) - 1)),
                        responses[Len(responses)])

RECURSIVE MergedPhrases(_)
MergedPhrases(responses) ==
    IF responses = <<>> THEN <<>>
    ELSE merge_phrases(MergedPhrases(SubSeq(responses, 1, Len(responses) - 1)),
                       responses[Len(responses)])

\* C27: detect_entities and detect_key_phrases hand every non-blank chunk to
\* Comprehend, in order, whichever calls fail, and return the merge of the
\* responses of the calls that succeeded.
C27_FailedChunkIsSkipped ==
    /\ Done("detect_entities") =>
          /\ gen.sent = NonBlankChunks(gen.text)
          /\ Len(gen.answered) + Cardinality(gen.failed) = Len(gen.sent)
          /\ gen.out = Value(SortedByScore(DictValues(MergedEntities(gen.answered))))
    /\ Done("detect_key_phrases") =>
          /\ gen.sent = NonBlankChunks(gen.text)
          /\ Len(gen.answered) + Cardinality(gen.failed) = Len(gen.sent)
          /\ gen.out = Value(SortedByScore(DictValues(MergedPhrases(gen.answered))))

\* C27 witness: the call for the first of two chunks failed, the second chunk
\* was sent all the same and its entity is the result.
C27_Witness ==
    /\ Done("detect_entities")
    /\ gen.failed = {1}
    /\ gen.sent = <<<<"a", "a">>, <<"a", "a">>>>
    /\ gen.answered = <<<<[Type |-> "PERSON", Text |-> "Acme", Score |-> 3]>>>>
    /\ gen.out = Value(<<[text |-> "Acme", type |-> "PERSON", score |-> 3]>>)

\* C28: detect_sentiment calls Comprehend at most once, with the first chunk
\* of the text; for the empty text it returns NEUTRAL with empty scores and
\* makes no call; when the call fails it returns UNKNOWN with empty scores and
\* an error field.
C28_SentimentOfFirstChunk ==
    gen.op = "detect_sentiment" =>
        /\ Len(gen.sent) <= 1
        /\ gen.sent # <<>> => gen.sent[1] = chunk_text(gen.text, MaxBytes)[1]
        /\ (gen.pc = "done" /\ gen.text = <<>>) =>
                gen.out = Value(NeutralResult) /\ gen.sent = <<>>
        /\ (gen.pc = "done" /\ gen.failed # {}) => gen.out = Value(UnknownResult)

\* C28 witness: the text has two chunks, the one call, for the first chunk,
\* failed, and the result is UNKNOWN.
C28_Witness ==
    /\ Done("detect_sentiment")
    /\ gen.text = <<"a", "a", "nl", "a", "a">>
    /\ gen.sent = <<<<"a", "a">>>>
    /\ gen.failed = {1}
    /\ gen.out = Value(UnknownResult)

\* The name, lowercased and with blanks as underscores, contains a lowercased
\* key of the mock data or is contained in one.
NameMatchesMock ==
    \E i \in DOMAIN gen.mock_data :
        \/ In(LowerName(gen.mock_data[i].key), normalized_name(gen.name))
        \/ In(normalized_name(gen.name), LowerName(gen.mock_data[i].key))

\* C29: when the normalized name contains or is contained in a lowercased
\* mock key, scrape_company fetches no page at any time and returns source
\* "mock_data", no pages and a canned summary of such a key, with or without
\* a company_url.
C29_MockBeforeNetwork ==
    (gen.op = "scrape_company" /\ NameMatchesMock) =>
        /\ gen.fetches = <<>>
        /\ gen.pc \in {"called", "done"}
        /\ gen.pc = "done" =>
              /\ gen.out.ok
              /\ gen.out.val.source = "mock_data"
              /\ gen.out.val.pages = <<>>
              /\ \E i \in DOMAIN gen.mock_data :
                    /\ gen.out.val.summary = gen.mock_data[i].mock
                    /\ \/ In(LowerName(gen.mock_data[i].key), normalized_name(gen.name))
                       \/ In(normalized_name(gen.name), LowerName(gen.mock_data[i].key))

\* C29 witness: "G g" with a company_url is answered from the mock data of
\* the key "g_g".
C29_Witness ==
    /\ Done("scrape_company")
    /\ gen.name = <<"G", " ", "g">> /\ gen.url # ""
    /\ gen.mock_data = <<[key |-> <<"g", "_", "g">>, mock |-> "canned1"]>>
    /\ gen.fetches = <<>>
    /\ gen.out = Value(ScrapeResult(gen.name, gen.url, <<>>, "canned1", "mock_data"))

\* The fetches that ended with a page.
Succeeded == SelectSeq(gen.fetches, LAMBDA f : f.outcome = "page")

\* C30: without a mock match scrape_company fetches at most three pages, the
\* given URL and then the two secondary paths; however the fetches end, all
\* three are made when a URL is given, the call returns without raising, and
\* pages_scraped of the summary is the number of fetches that ended with a
\* page.
C30_FetchFailuresAreCaptured ==
    (gen.op = "scrape_company" /\ ~NameMatchesMock) =>
        /\ Len(gen.fetches) <= 3
        /\ \A i \in DOMAIN gen.fetches :
              gen.fetches[i].url = <<gen.url, "site/about", "site/about-us">>[i]
        /\ gen.pc = "done" =>
              /\ Len(gen.fetches) = IF gen.url # "" THEN 3 ELSE 0
              /\ gen.out.ok
              /\ gen.out.val.source = "live_scrape"
              /\ gen.out.val.summary.pages_scraped = Len(Succeeded)

\* C30 witness: the three fetches ended with a timeout, a page and an HTTP
\* error; the summary counts one page.
C30_Witness ==
    /\ Done("scrape_company")
    /\ ~NameMatchesMock
    /\ Len(gen.fetches) = 3
    /\ gen.fetches[1].outcome = "Timeout"
    /\ gen.fetches[2].outcome = "page"
    /\ gen.fetches[3].outcome = "HTTPError"
    /\ gen.out.val.summary.pages_scraped = 1

\* C31: when at least one fetch ended with a page, the description of the
\* summary is the meta description of the first such page, also when the
\* fetch of the given URL failed and a secondary page was fetched.
C31_DescriptionOfFirstFetchedPage ==
    (Done("scrape_company") /\ ~NameMatchesMock /\ Succeeded # <<>>) =>
        gen.out.val.summary.description = <<"description", Succeeded[1].url>>

(* ------------------------ analysis without a text ---------------------- *)
\* No scrape summary with a non-empty combined content is stored for the session.
NoStoredText(sid) ==
    ScrapedKey(sid) \notin DOMAIN blobs \/ CombinedContent(blobs[ScrapedKey(sid)]) = ""

\* C32: an AnalyzeCompany invocation without a text, for a session with no
\* stored scrape summary of non-empty combined content, returns the failure
\* status 400 without calling the NLP service and without writing the record.
C32_NoTextNoAnalysis ==
    [][\A p \in Procs :
        (/\ pc[p] = "analyze_load"
         /\ pc'[p] # "analyze_load"
         /\ req[p].text = ""
         /\ NoStoredText(req[p].sessionId)) =>
            /\ pc'[p] = "returned"
            /\ resp'[p] = 400
            /\ "nlp" \notin calls'[p]
            /\ ~wrote'[p]
            /\ table' = table]_vars

\* C32 witness: the invocation looked for the blob, found a summary without
\* content and returned 400 while the session's record exists.
C32_Witness ==
    \E p \in Procs :
        /\ pc[p] = "returned"
        /\ req[p].handler = "analyze_company"
        /\ req[p].text = ""
        /\ req[p].sessionId # NoId
        /\ resp[p] = 400
        /\ calls[p] = {"blob"}
        /\ ~wrote[p]
        /\ ScrapedKey(req[p].sessionId) \in DOMAIN blobs
        /\ NoStoredText(req[p].sessionId)
        /\ get_session(table, req[p].sessionId) # NoSession

(* --------------------------- the created record ------------------------ *)
\* The collection fields of a record hold nothing.
CollectionsEmpty(item) ==
    /\ item.scrapedData = EmptyDict
    /\ item.parsedDocuments = <<>>
    /\ item.analysisResults = EmptyDict
    /\ item.interviewerBrief = EmptyDict
    /\ item.intervieweePacket = EmptyDict
    /\ item.feedback = <<>>

\* C33: a CreateSession invocation that succeeds adds one record under a
\* sessionId no record had, with status CREATED, createdAt = updatedAt and
\* empty collection fields, and responds with that record; one that fails
\* adds nothing. Either way the records already stored are left alone.
C33_CreatedRecord ==
    [][\A p \in Procs :
        (pc[p] = "create" /\ pc'[p] # "create") =>
            IF resp'[p] = 201
            THEN \E k \in (DOMAIN table') \ (DOMAIN table) :
                    /\ DOMAIN table' = (DOMAIN table) \cup {k}
                    /\ \A j \in DOMAIN table : j[1] # k[1] /\ table'[j] = table[j]
                    /\ table'[k].sessionId = k[1]
                    /\ table'[k].createdAt = k[2]
                    /\ table'[k].updatedAt = table'[k].createdAt
                    /\ table'[k].status = "CREATED"
                    /\ table'[k].companyName = req[p].companyName
                    /\ CollectionsEmpty(table'[k])
                    /\ ret'[p] = table'[k]
            ELSE table' = table]_vars

\* C33 witness: a session created after the clock advanced, as the response shows it.
C33_Witness ==
    \E p \in Procs :
        /\ pc[p] = "returned"
        /\ req[p].handler = "create_session"
        /\ resp[p] = 201
        /\ ret[p].sessionId \in SessionIds
        /\ ret[p].createdAt = MaxClock
        /\ ret[p].status = "CREATED"
        /\ Key(ret[p].sessionId, ret[p].createdAt) \in DOMAIN table

(* ------------------------------ reading -------------------------------- *)
\* The composite keys stored under a sessionId.
KeysOf(tbl, sid) == {k \in DOMAIN tbl : k[1] = sid}

\* C34: a GetSession invocation whose query is answered responds with the
\* record of the greatest createdAt among those stored under the sessionId,
\* responds not-found exactly when none is stored, and leaves the table as
\* it was.
C34_NewestRecordOrNone ==
    [][\A p \in Procs :
        (pc[p] = "session_get" /\ pc'[p] # "session_get") =>
            /\ table' = table
            /\ resp'[p] \in {200, 404, 500}
            /\ resp'[p] = 404 => KeysOf(table, req[p].sessionId) = {}
            /\ resp'[p] = 200 =>
                    \E k \in KeysOf(table, req[p].sessionId) :
                        /\ ret'[p] = table[k]
                        /\ \A j \in KeysOf(table, req[p].sessionId) : j[2] <= k[2]
            /\ KeysOf(table, req[p].sessionId) = {} => resp'[p] \in {404, 500}]_vars

\* C34 witness: two records are stored under the sessionId and the response
\* carries the one created last.
C34_Witness ==
    \E p \in Procs :
        /\ pc[p] = "returned"
        /\ req[p].handler = "get_session"
        /\ resp[p] = 200
        /\ Cardinality(KeysOf(table, req[p].sessionId)) = 2
        /\ ret[p] = table[Key(req[p].sessionId, MaxClock)]

(* ------------------------------ feedback ------------------------------- *)
\* The record under key k gets a feedback or the status FEEDBACK_RECEIVED in this step.
FeedbackWritten(k) ==
    IF k \in DOMAIN table
    THEN \/ table'[k].feedback # table[k].feedback
         \/ table'[k].status = "FEEDBACK_RECEIVED" /\ table[k].status # "FEEDBACK_RECEIVED"
    ELSE \/ table'[k].feedback # <<>>
         \/ table'[k].status = "FEEDBACK_RECEIVED"

\* The update of SubmitFeedback invocation p, applied to the record under k:
\* the feedback {corrections, selectedQuestions, notes, submittedAt} and the
\* status FEEDBACK_RECEIVED are in the record after the one step; the other
\* fields, updatedAt apart, and the other records stay as they were.
FeedbackStored(p, k) ==
    /\ req[p].handler = "submit_feedback"
    /\ Updates(p)
    /\ k = UpdateKey(p)
    /\ k \in DOMAIN table
    /\ DOMAIN table'[k].feedback = {"corrections", "selectedQuestions", "notes", "submittedAt"}
    /\ table'[k].feedback.corrections = req[p].corrections
    /\ table'[k].feedback.submittedAt \in Times
    /\ table'[k].status = "FEEDBACK_RECEIVED"
    /\ ChangedFields(table[k], table'[k]) \subseteq {"feedback", "status", "updatedAt"}
    /\ \A j \in DOMAIN table' : j # k => j \in DOMAIN table /\ table'[j] = table[j]

\* C35: every step in which a record gets a new feedback or the status
\* FEEDBACK_RECEIVED is the one update of a SubmitFeedback invocation, which
\* sets both at once and keeps the other fields; no other step of a
\* SubmitFeedback invocation writes the table, so no state in between has
\* one of the two without the other.
C35_FeedbackAndStatusTogether ==
    [][/\ \A k \in DOMAIN table' :
            FeedbackWritten(k) => \E p \in Procs : FeedbackStored(p, k)
       /\ \A p \in Procs :
            (req[p].handler = "submit_feedback" /\ pc[p] # pc'[p]) =>
                table' = table \/ FeedbackStored(p, UpdateKey(p))]_vars

\* C35 witness: the update of a SubmitFeedback invocation has returned the
\* record with its feedback and FEEDBACK_RECEIVED, the company name kept.
C35_Witness ==
    \E p \in Procs :
        /\ pc[p] = "updated"
        /\ req[p].handler = "submit_feedback"
        /\ ret[p].status = "FEEDBACK_RECEIVED"
        /\ ret[p].feedback.corrections = req[p].corrections
        /\ ret[p].companyName = "Acme"
        /\ ret[p] = table[UpdateKey(p)]

(* --------------------------- the envelope ------------------------------ *)
\* C36: every invocation ends with a response, 2xx or 4xx/5xx, whatever the
\* event: none ends with an exception that leaves the handler.
C36_EveryInvocationResponds ==
    \A p \in Procs :
        /\ pc[p] # "raised"
        /\ pc[p] = "returned" => resp[p] \in {200, 201, 400, 404, 500}

(* ------------------------------- READY --------------------------------- *)
\* A READY record holds a brief and a packet that GenerateBrief generated.
ReadyHasBriefAndPacket ==
    \A k \in DOMAIN table :
        table[k].status = "READY" =>
            table[k].interviewerBrief \in Briefs /\ table[k].intervieweePacket \in Packets

\* The record under k gets a brief, a packet or the status READY in this step.
BriefWritten(k) ==
    IF k \in DOMAIN table
    THEN \/ table'[k].interviewerBrief # table[k].interviewerBrief
         \/ table'[k].intervieweePacket # table[k].intervieweePacket
         \/ table'[k].status = "READY" /\ table[k].status # "READY"
    ELSE \/ table'[k].interviewerBrief # EmptyDict
         \/ table'[k].intervieweePacket # EmptyDict
         \/ table'[k].status = "READY"

\* The update of GenerateBrief invocation p sets brief, packet and READY at once.
BriefStored(p, k) ==
    /\ req[p].handler = "generate_brief"
    /\ Updates(p)
    /\ k = UpdateKey(p)
    /\ table'[k].interviewerBrief = loc[p].updates.interviewerBrief
    /\ table'[k].interviewerBrief \in Briefs
    /\ table'[k].intervieweePacket = loc[p].updates.intervieweePacket
    /\ table'[k].intervieweePacket \in Packets
    /\ table'[k].status = "READY"

\* C37: in every state a READY record holds the brief and the packet of a
\* GenerateBrief invocation: the only step that makes a record READY, or
\* that changes its brief or its packet, is the update of a GenerateBrief
\* invocation, which writes the three together.
C37_ReadyHasBriefAndPacket ==
    /\ []ReadyHasBriefAndPacket
    /\ [][\A k \in DOMAIN table' : BriefWritten(k) => \E p \in Procs : BriefStored(p, k)]_vars

\* C37 witness: the update of a GenerateBrief invocation on a scraped session
\* has been applied: the record is READY and holds the brief and the packet.
C37_Witness ==
    \E k \in DOMAIN table, p \in Procs :
        /\ pc[p] = "updated"
        /\ req[p].handler = "generate_brief"
        /\ k = UpdateKey(p)
        /\ table[k].status = "READY"
        /\ table[k].interviewerBrief \in Briefs
        /\ table[k].intervieweePacket \in Packets
        /\ table[k].scrapedData # EmptyDict

(* ------------------------ the identity of a session -------------------- *)
IdentityFields == {"sessionId", "createdAt", "companyName", "companyUrl", "metadata"}

\* C38: a record is stored under its own sessionId and createdAt, and no step
\* of any invocation removes a record or changes its sessionId, createdAt,
\* companyName, companyUrl or metadata.
C38_IdentityKept ==
    /\ [](\A k \in DOMAIN table : table[k].sessionId = k[1] /\ table[k].createdAt = k[2])
    /\ [][\A k \in DOMAIN table :
            /\ k \in DOMAIN table'
            /\ \A f \in IdentityFields : table'[k][f] = table[k][f]]_vars

\* C38 witness: a ScrapeCompany invocation that named another company has
\* updated the session after the clock advanced; the record keeps the name
\* and the time of its creation.
C38_Witness ==
    \E p \in Procs :
        /\ pc[p] = "returned"
        /\ req[p].handler = "scrape_company"
        /\ req[p].companyName = "Globex"
        /\ resp[p] = 200
        /\ wrote[p]
        /\ \E k \in DOMAIN table :
            /\ k[1] = req[p].sessionId
            /\ table[k].status = "SCRAPING_COMPLETE"
            /\ table[k].companyName = "Acme"
            /\ table[k].createdAt = 0
            /\ table[k].updatedAt = MaxClock

(* --------------------------- one record each --------------------------- *)
\* The step is a CreateSession invocation storing its record.
Creates(p) == pc[p] = "create" /\ pc'[p] = "returned" /\ resp'[p] = 201

\* C39: in every state each sessionId in the table has exactly one record,
\* holding every field create_session initialises; a record appears only in
\* the step in which a CreateSession invocation stores it, so the stage
\* handlers neither add a record under an existing sessionId nor one under a
\* sessionId that was never created.
C39_OneRecordPerSession ==
    /\ [](\A k \in DOMAIN table :
            /\ DOMAIN table[k] = ItemFields
            /\ KeysOf(table, k[1]) = {k})
    /\ [][(DOMAIN table' # DOMAIN table) =>
            \E p \in Procs :
                /\ Creates(p)
                /\ KeysOf(table, ret'[p].sessionId) = {}
                /\ DOMAIN table' = (DOMAIN table) \cup {Key(ret'[p].sessionId, ret'[p].createdAt)}]_vars

\* C39 witness: a stage has updated the session at a later time than its
\* creation, and the table still holds the one record, stored under the
\* creation time.
C39_Witness ==
    \E p \in Procs :
        /\ pc[p] = "updated"
        /\ req[p].handler \in Stages
        /\ clock = MaxClock
        /\ DOMAIN table = {Key(req[p].sessionId, 0)}
        /\ DOMAIN table[Key(req[p].sessionId, 0)] = ItemFields
        /\ table[Key(req[p].sessionId, 0)].updatedAt = MaxClock

(* ------------------------- blobs and the record ------------------------ *)
\* The content stored under a blob key, the empty dict when there is none.
BlobOr(key) == IF key \in DOMAIN blobs THEN blobs[key] ELSE EmptyDict

\* The blob copies of a record's scrape summary, brief and packet equal the fields.
Agree(item) ==
    /\ BlobOr(<<"scraped", item.sessionId>>) = item.scrapedData
    /\ BlobOr(<<"briefs", item.sessionId>>) = item.interviewerBrief
    /\ BlobOr(<<"packets", item.sessionId>>) = item.intervieweePacket

Uploads(p) ==
    /\ pc[p] \in {"scrape_upload", "generate_upload_brief", "generate_upload_packet"}
    /\ pc'[p] \notin {pc[p], "returned"}

====
